---- MODULE Spec2Model ----
(***************************************************************************)
(* Kakurasu rules engine (src/src/index.js): the Game (class Kakurasu),    *)
(* its Fields (class KakurasuField), the move history with undo/redo and   *)
(* the constraint cache.                                                   *)
(*                                                                         *)
(* Representation.                                                         *)
(*  - A field key "<row>-<column>" is the pair <<row, column>>; the two    *)
(*    components of key.split("-") are key[1] and key[2].                  *)
(*  - A JavaScript value that may be null/undefined is a sequence of       *)
(*    length at most one: <<>> is null/undefined, <<v>> is the value v.    *)
(*    So the cursor 0 is <<0>> and the Empty cursor is <<>>.               *)
(*  - this.state.fields is a function from keys to the state object of the *)
(*    KakurasuField ({status, readOnly, solution}; an absent readOnly or   *)
(*    solution key is FALSE); Object.keys(fields) is the sequence          *)
(*    fieldKeys (insertion order).                                         *)
(***************************************************************************)
EXTENDS Integers, Sequences, FiniteSets, TLC

VARIABLES
    pc,                 \* "config": generateLevel(config) not yet called;
                        \* "nofields": a snapshot without fields not yet
                        \* loaded; "objects": the games are those of store;
                        \* "generating": inside generateLevel;
                        \* "snapshot": a structural snapshot not yet loaded;
                        \* "game": a constructed Kakurasu; "threw": the
                        \* constructor ended with a TypeError
    fields,             \* this.state.fields
    fieldKeys,          \* Object.keys(this.state.fields)
    moveHistory,        \* this.state.moveHistory
    currentMoveIndex,   \* this.state.currentMoveIndex
    meta,               \* this.meta
    last,               \* the last call made: its name, the cursor and the
                        \* history length when it was made, the value returned
    gen,                \* the frame of KakurasuLevelGenerator.generateLevel:
                        \* its config, the position of its loops and the
                        \* solutionIndexes selected last; null when no level
                        \* is being generated
    store               \* the objects of a program that holds two games and
                        \* a snapshot: field states, history arrays and the
                        \* references to them; null when the program holds
                        \* the one game of the variables above

vars == <<pc, fields, fieldKeys, moveHistory, currentMoveIndex, meta, last, gen, store>>

-----------------------------------------------------------------------------
(* Bounds of the model *)

\* longest move history explored in gameplay
MaxHistory == 3
\* largest number of rows and of columns of a loaded board
MaxDim == 3
\* largest number of rows and of columns of a generated level
MaxGenDim == 2
\* numbers of solution cells of a loaded board
SolutionCounts == 0..2
\* numbers of Active cells of a loaded board
ActiveCounts == 0..2

-----------------------------------------------------------------------------
(* Module-level constants, index.js:6-12 *)

STATUS_CLEAR == 0
STATUS_ACTIVE == 1
STATUS_FLAGGED == 2

Null == <<>>

Some(v) == <<v>>

CLEANVALUE_MOVEHISTORY == <<>>

CLEANVALUE_CURRENTMOVEINDEX == Null

\* !x for x a number or null: null and 0 are falsy
Falsy(x) == x = Null \/ x = Some(0)

\* isNaN(parseInt(x)) for x a number or null
NotANumber(x) == x = Null

Min(a, b) == IF a < b THEN a ELSE b

\* the game as one value: what the methods read and write
Game == [fields |-> fields, fieldKeys |-> fieldKeys, moveHistory |-> moveHistory,
         currentMoveIndex |-> currentMoveIndex, meta |-> meta]

-----------------------------------------------------------------------------
(* KakurasuField, index.js:616-723 *)

\* KakurasuField.isReadOnly
isReadOnly(field) == field.readOnly

\* KakurasuField.isSolution
isSolution(field) == field.solution

\* KakurasuField.isClear
isClear(field) == field.status = STATUS_CLEAR

\* KakurasuField.isActive
isActive(field) == field.status = STATUS_ACTIVE

\* mutant of setStatus: the state object is replaced by a fresh one that
\* holds the status only
SetStatusFreshState(field, status) ==
    [status |-> status, readOnly |-> FALSE, solution |-> FALSE]

\* KakurasuField.setStatus
setStatus(field, status) == [field EXCEPT !.status = status]

\* KakurasuField.setReadOnly: a truthy argument sets the flag, a falsy one
\* deletes it
setReadOnly(field, readOnly) == [field EXCEPT !.readOnly = readOnly]

\* mutant of _reset: the read-only check is missing
ResetIgnoringReadOnly(field) == setStatus(field, STATUS_CLEAR)

\* KakurasuField._reset
_reset(field) == IF ~isReadOnly(field) THEN setStatus(field, STATUS_CLEAR) ELSE field

-----------------------------------------------------------------------------
(* Move history, index.js:126-204 and 240-294 *)

\* Kakurasu._getFieldKey: row + "-" + column
_getFieldKey(row, column) == <<row, column>>

\* Kakurasu.getField (the field's state object)
getField(g, row, column) == g.fields[_getFieldKey(row, column)]

\* mutant of _calcNextCurrentMoveIndex: a numeric cursor that falls below 0
\* is not turned into null
CalcNextIndexBelowZero(g, diff) ==
    LET copy == g.currentMoveIndex IN
    IF NotANumber(copy)
    THEN IF diff > 0
         THEN IF diff - 1 > 0 THEN Some(diff - 1) ELSE Some(0)
         ELSE copy
    ELSE Some(copy[1] + diff)

\* mutant of _calcNextCurrentMoveIndex: plain arithmetic, in which the null
\* cursor counts as 0
CalcNextIndexNullAsZero(g, diff) ==
    LET copy == IF g.currentMoveIndex = Null THEN 0 ELSE g.currentMoveIndex[1] IN
    IF copy + diff < 0 THEN Null ELSE Some(copy + diff)

\* Kakurasu._calcNextCurrentMoveIndex
_calcNextCurrentMoveIndex(g, diff) ==
    LET copy == g.currentMoveIndex IN
    IF NotANumber(copy)
    THEN IF diff > 0
         THEN IF diff - 1 > 0 THEN Some(diff - 1) ELSE Some(0)
         ELSE copy
    ELSE IF copy[1] + diff < 0 THEN Null ELSE Some(copy[1] + diff)

\* Kakurasu._changeCurrentMoveIndex
_changeCurrentMoveIndex(g, diff) ==
    [g EXCEPT !.currentMoveIndex = _calcNextCurrentMoveIndex(g, diff)]

\* Array.prototype.slice(0, end) for end >= 0
Slice0(arr, end) == SubSeq(arr, 1, Min(end, Len(arr)))

\* mutant of _deleteFutureMoveHistory: a truthiness test of the cursor and a
\* slice that ends before the cursor
DeleteFutureMoveHistoryTruthy(g) ==
    LET currentIndex == g.currentMoveIndex IN
    IF ~Falsy(currentIndex)
    THEN [g EXCEPT !.moveHistory = Slice0(g.moveHistory, currentIndex[1])]
    ELSE g

\* Kakurasu._deleteFutureMoveHistory
_deleteFutureMoveHistory(g) ==
    LET currentIndex == g.currentMoveIndex IN
    IF ~NotANumber(currentIndex)
    THEN [g EXCEPT !.moveHistory = Slice0(g.moveHistory, currentIndex[1] + 1)]
    ELSE [g EXCEPT !.moveHistory = <<>>]

\* a variant of _addMoveToHistory that keeps the moves above the cursor
AddMoveToHistoryKeepsFuture(g, move) ==
    _changeCurrentMoveIndex([g EXCEPT !.moveHistory = Append(g.moveHistory, move)], 1)

\* Kakurasu._addMoveToHistory
_addMoveToHistory(g, move) ==
    LET cut == _deleteFutureMoveHistory(g)
        pushed == [cut EXCEPT !.moveHistory = Append(cut.moveHistory, move)]
    IN _changeCurrentMoveIndex(pushed, 1)

\* Kakurasu._applyMove: the game afterwards and the value returned
_applyMove(g, move) ==
    LET key == _getFieldKey(move.row, move.column)
        field == getField(g, move.row, move.column)
    IN IF ~isReadOnly(field)
       THEN [g |-> [g EXCEPT !.fields[key] = setStatus(field, move.nextStatus)], ret |-> TRUE]
       ELSE [g |-> g, ret |-> FALSE]

\* mutant of _makeMove: the move is recorded whether or not it was applied
MakeMoveAlwaysRecorded(g, move) ==
    LET applied == _applyMove(g, move) IN
    [g |-> _addMoveToHistory(applied.g, move), ret |-> applied.ret]

\* Kakurasu._makeMove
_makeMove(g, move) ==
    LET applied == _applyMove(g, move) IN
    IF applied.ret
    THEN [g |-> _addMoveToHistory(applied.g, move), ret |-> TRUE]
    ELSE applied

\* mutant of _setFieldStatus: a request for the status the field already has
\* succeeds without a move
SetFieldStatusSkipsSame(g, row, column, status) ==
    IF getField(g, row, column).status = status /\ ~isReadOnly(getField(g, row, column))
    THEN [g |-> g, ret |-> TRUE]
    ELSE _makeMove(g, [row |-> row, column |-> column,
                      previousStatus |-> getField(g, row, column).status,
                      nextStatus |-> status])

\* Kakurasu._setFieldStatus
_setFieldStatus(g, row, column, status) ==
    _makeMove(g, [row |-> row, column |-> column,
                 previousStatus |-> getField(g, row, column).status,
                 nextStatus |-> status])

\* Kakurasu.setFieldActive
setFieldActive(g, row, column) == _setFieldStatus(g, row, column, STATUS_ACTIVE)

\* Kakurasu.setFieldFlagged
setFieldFlagged(g, row, column) == _setFieldStatus(g, row, column, STATUS_FLAGGED)

\* Kakurasu.setFieldClear
setFieldClear(g, row, column) == _setFieldStatus(g, row, column, STATUS_CLEAR)

\* mutant of changeActiveStatus: only an Active field is set to Clear
ChangeActiveStatusOfActive(g, row, column) ==
    IF isActive(getField(g, row, column))
    THEN setFieldClear(g, row, column)
    ELSE setFieldActive(g, row, column)

\* Kakurasu.changeActiveStatus
changeActiveStatus(g, row, column) ==
    IF isClear(getField(g, row, column))
    THEN setFieldActive(g, row, column)
    ELSE setFieldClear(g, row, column)

\* Kakurasu.changeFlagStatus
changeFlagStatus(g, row, column) ==
    IF isClear(getField(g, row, column))
    THEN setFieldFlagged(g, row, column)
    ELSE setFieldClear(g, row, column)

\* mutant of getMoveFromHistoryAsCopy: a null index reads entry 0
GetMoveNullAsZero(g, moveIndex) ==
    LET i == IF moveIndex = Null THEN 0 ELSE moveIndex[1] IN
    IF i >= 0 /\ i < Len(g.moveHistory) THEN Some(g.moveHistory[i + 1]) ELSE Null

\* Kakurasu.getMoveFromHistoryAsCopy: moveHistory[moveIndex], undefined when
\* moveIndex is null or not an index of the array
getMoveFromHistoryAsCopy(g, moveIndex) ==
    IF moveIndex # Null /\ moveIndex[1] >= 0 /\ moveIndex[1] < Len(g.moveHistory)
    THEN Some(g.moveHistory[moveIndex[1] + 1])
    ELSE Null

\* mutant of isPossibleToRedoMove: nothing can be redone from the Empty
\* cursor
IsPossibleToRedoMoveFromNumber(g) ==
    /\ g.currentMoveIndex # Null
    /\ getMoveFromHistoryAsCopy(g, _calcNextCurrentMoveIndex(g, 1)) # Null

\* Kakurasu.isPossibleToRedoMove
isPossibleToRedoMove(g) ==
    getMoveFromHistoryAsCopy(g, _calcNextCurrentMoveIndex(g, 1)) # Null

\* mutant of isPossibleToUndoMove: a truthiness test of the cursor
IsPossibleToUndoMoveTruthy(g) ==
    ~Falsy(g.currentMoveIndex) /\ getMoveFromHistoryAsCopy(g, g.currentMoveIndex) # Null

\* Kakurasu.isPossibleToUndoMove
isPossibleToUndoMove(g) ==
    getMoveFromHistoryAsCopy(g, _calcNextCurrentMoveIndex(g, 0)) # Null

\* mutant of redoMove: the cursor is advanced only when the move was applied
RedoMoveAppliedFirst(g) ==
    IF isPossibleToRedoMove(g)
    THEN LET moveToBeRedone == getMoveFromHistoryAsCopy(g, _calcNextCurrentMoveIndex(g, 1))[1]
             applied == _applyMove(g, moveToBeRedone)
         IN IF applied.ret
            THEN [g |-> _changeCurrentMoveIndex(applied.g, 1), ret |-> TRUE]
            ELSE applied
    ELSE [g |-> g, ret |-> FALSE]

\* mutant of redoMove: the move is re-applied but the cursor is not advanced
RedoMoveCursorKept(g) ==
    IF isPossibleToRedoMove(g)
    THEN _applyMove(g, getMoveFromHistoryAsCopy(g, _calcNextCurrentMoveIndex(g, 1))[1])
    ELSE [g |-> g, ret |-> FALSE]

\* Kakurasu.redoMove
redoMove(g) ==
    IF isPossibleToRedoMove(g)
    THEN LET moveToBeRedone == getMoveFromHistoryAsCopy(g, _calcNextCurrentMoveIndex(g, 1))[1]
         IN _applyMove(_changeCurrentMoveIndex(g, 1), moveToBeRedone)
    ELSE [g |-> g, ret |-> FALSE]

\* mutant of undoMove: the move is taken from the history without a copy,
\* so that the swap of previousStatus and nextStatus is made on the entry
UndoMoveOnTheEntry(g) ==
    IF isPossibleToUndoMove(g)
    THEN LET at == _calcNextCurrentMoveIndex(g, 0)[1] + 1
             entry == g.moveHistory[at]
             moveToBeUndone == [entry EXCEPT !.nextStatus = entry.previousStatus,
                                             !.previousStatus = entry.nextStatus]
             swapped == [g EXCEPT !.moveHistory[at] = moveToBeUndone]
         IN _applyMove(_changeCurrentMoveIndex(swapped, -1), moveToBeUndone)
    ELSE [g |-> g, ret |-> FALSE]

\* mutant of undoMove: previousStatus and nextStatus are not swapped
UndoMoveNotInverted(g) ==
    IF isPossibleToUndoMove(g)
    THEN _applyMove(_changeCurrentMoveIndex(g, -1),
                    getMoveFromHistoryAsCopy(g, _calcNextCurrentMoveIndex(g, 0))[1])
    ELSE [g |-> g, ret |-> FALSE]

\* Kakurasu.undoMove
undoMove(g) ==
    IF isPossibleToUndoMove(g)
    THEN LET copy == getMoveFromHistoryAsCopy(g, _calcNextCurrentMoveIndex(g, 0))[1]
             moveToBeUndone == [copy EXCEPT !.nextStatus = copy.previousStatus,
                                            !.previousStatus = copy.nextStatus]
         IN _applyMove(_changeCurrentMoveIndex(g, -1), moveToBeUndone)
    ELSE [g |-> g, ret |-> FALSE]

\* Kakurasu.resetGame
resetGame(g) ==
    [g EXCEPT !.fields = [k \in DOMAIN g.fields |-> _reset(g.fields[k])],
              !.moveHistory = CLEANVALUE_MOVEHISTORY,
              !.currentMoveIndex = CLEANVALUE_CURRENTMOVEINDEX]

-----------------------------------------------------------------------------
(* Loading: board extents and constraint cache, index.js:386-488 *)

\* this.meta = {} (nothing loaded yet)
EmptyMeta == [amountRows |-> 0, amountColumns |-> 0,
              contraints |-> [rows |-> <<>>, columns |-> <<>>]]

\* the loop of _loadFiledMetaInformationsAmountRowsAndColumns over
\* fieldKeys[i..]: acc holds highestRowKey and highestColumnKey (each pass
\* hands the two on as values)
RECURSIVE ScanFieldKeys(_, _, _)
ScanFieldKeys(keys, i, acc) ==
    IF i > Len(keys) THEN acc
    ELSE LET split == keys[i]
             column == split[1]
             row == split[2]
             hc == IF Falsy(acc.highestColumnKey) \/ acc.highestColumnKey[1] < column
                   THEN Some(column) ELSE acc.highestColumnKey
             hr == IF Falsy(acc.highestRowKey) \/ acc.highestRowKey[1] < column
                   THEN Some(row) ELSE acc.highestRowKey
         IN CHOOSE h \in { ScanFieldKeys(keys, i + 1, next) :
                                next \in {[highestRowKey |-> hr, highestColumnKey |-> hc]} } : TRUE

\* Kakurasu._loadFiledMetaInformationsAmountRowsAndColumns
_loadFiledMetaInformationsAmountRowsAndColumns(g) ==
    LET h == ScanFieldKeys(g.fieldKeys, 1, [highestRowKey |-> Null, highestColumnKey |-> Null])
    IN [g EXCEPT !.meta.amountRows = IF h.highestRowKey # Null THEN h.highestRowKey[1] + 1 ELSE 0,
                 !.meta.amountColumns = IF h.highestColumnKey # Null THEN h.highestColumnKey[1] + 1 ELSE 0]

\* Kakurasu.getAmountRows
getAmountRows(g) == g.meta.amountRows

\* Kakurasu.getAmountColumns
getAmountColumns(g) == g.meta.amountColumns

\* Kakurasu._getAmountRowColumns
_getAmountRowColumns(g, forRow) == IF forRow THEN getAmountRows(g) ELSE getAmountColumns(g)

\* mutant of getWeight: the weight is the index, not the index plus one
GetWeightIsIndex(index) == index

\* Kakurasu.getWeight
getWeight(index) == index + 1

\* the keys Kakurasu._getFieldsInRowColumn hands to getField, in order
KeysInRowColumn(g, forRow, index) ==
    [n \in 1.._getAmountRowColumns(g, forRow) |->
        LET i == n - 1
            row == IF forRow THEN index ELSE i
            column == IF forRow THEN i ELSE index
        IN _getFieldKey(row, column)]

\* getField of a key the board does not hold returns undefined, and the
\* assignment field.row = row then throws a TypeError
GetFieldThrows(g, forRow, index) ==
    \E n \in DOMAIN KeysInRowColumn(g, forRow, index) :
        KeysInRowColumn(g, forRow, index)[n] \notin DOMAIN g.fields

\* Kakurasu._getFieldsInRowColumn: the fields with the row and column that
\* getField wrote on them
_getFieldsInRowColumn(g, forRow, index) ==
    LET keys == KeysInRowColumn(g, forRow, index)
    IN [n \in DOMAIN keys |-> [row |-> keys[n][1], column |-> keys[n][2],
                               state |-> g.fields[keys[n]]]]

\* Kakurasu._getWeightForField
_getWeightForField(forRow, field) == getWeight(IF forRow THEN field.column ELSE field.row)

\* the loop of _loadFieldMetaInformationsContraintsForFields over fields[i..]
RECURSIVE SolutionValueFrom(_, _, _)
SolutionValueFrom(forRow, flds, i) ==
    IF i > Len(flds) THEN 0
    ELSE (IF isSolution(flds[i].state) THEN _getWeightForField(forRow, flds[i]) ELSE 0)
         + SolutionValueFrom(forRow, flds, i + 1)

\* Kakurasu._loadFieldMetaInformationsContraintsForFields: the value stored
\* in meta.contraints[rows|columns][index]
_loadFieldMetaInformationsContraintsForFields(g, forRow, index) ==
    SolutionValueFrom(forRow, _getFieldsInRowColumn(g, forRow, index), 1)

\* Kakurasu._loadFieldMetaInformationsConstraintsForRowColumn
_loadFieldMetaInformationsConstraintsForRowColumn(g, forRow) ==
    [index \in 0..(_getAmountRowColumns(g, forRow) - 1) |->
        _loadFieldMetaInformationsContraintsForFields(g, forRow, index)]

\* Kakurasu._loadFieldMetaInformationsContraints throws iff one of its
\* getField calls does
LoadContraintsThrows(g) ==
    \E forRow \in BOOLEAN : \E index \in 0..(_getAmountRowColumns(g, forRow) - 1) :
        GetFieldThrows(g, forRow, index)

\* Kakurasu._loadFieldMetaInformationsContraints
_loadFieldMetaInformationsContraints(g) ==
    [g EXCEPT !.meta.contraints =
        [rows |-> _loadFieldMetaInformationsConstraintsForRowColumn(g, TRUE),
         columns |-> _loadFieldMetaInformationsConstraintsForRowColumn(g, FALSE)]]

\* Kakurasu._loadFieldMetaInformations: the game and whether it threw
_loadFieldMetaInformations(g) ==
    LET sized == _loadFiledMetaInformationsAmountRowsAndColumns([g EXCEPT !.meta = EmptyMeta])
    IN IF LoadContraintsThrows(sized)
       THEN [g |-> sized, threw |-> TRUE]
       ELSE [g |-> _loadFieldMetaInformationsContraints(sized), threw |-> FALSE]

\* Kakurasu.constructor on a snapshot that holds fields (state.fields given;
\* a moveHistory array is truthy, an absent one is the clean empty array)
constructor(state) ==
    LET hist == state.moveHistory
        given == IF Falsy(state.currentMoveIndex) THEN CLEANVALUE_CURRENTMOVEINDEX
                 ELSE state.currentMoveIndex
        index == IF Falsy(given) /\ Len(hist) > 0 THEN Some(Len(hist) - 1) ELSE given
    IN _loadFieldMetaInformations(
           [fields |-> state.fields, fieldKeys |-> state.fieldKeys, moveHistory |-> hist,
            currentMoveIndex |-> index, meta |-> EmptyMeta])

\* Kakurasu.asJSON
asJSON(g) ==
    [fields |-> g.fields, fieldKeys |-> g.fieldKeys, moveHistory |-> g.moveHistory,
     currentMoveIndex |-> g.currentMoveIndex]

-----------------------------------------------------------------------------
(* Constraint queries and the win condition, index.js:322-384 and 495-511 *)

\* Kakurasu._getConstraintRowOrColumn with the lookup in meta.contraints
ContraintsFor(g, forRow) == IF forRow THEN g.meta.contraints.rows ELSE g.meta.contraints.columns

\* Kakurasu._getConstraintValue: undefined for an index that was not loaded
_getConstraintValue(g, forRow, index) ==
    IF index \in DOMAIN ContraintsFor(g, forRow)
    THEN Some(ContraintsFor(g, forRow)[index])
    ELSE Null

\* Kakurasu.getConstraintValueForRow
getConstraintValueForRow(g, row) == _getConstraintValue(g, TRUE, row)

\* Kakurasu.getConstraintValueForColumn
getConstraintValueForColumn(g, column) == _getConstraintValue(g, FALSE, column)

\* the loop of _getRowColumnSumValue over fields[i..]
RECURSIVE FieldsValueFrom(_, _, _)
FieldsValueFrom(forRow, flds, i) ==
    IF i > Len(flds) THEN 0
    ELSE (IF isActive(flds[i].state) THEN _getWeightForField(forRow, flds[i]) ELSE 0)
         + FieldsValueFrom(forRow, flds, i + 1)

\* mutant of _getRowColumnSumValue: the solution fields are summed, not the
\* Active ones
GetRowColumnSumValueOfSolution(g, forRow, index) ==
    SolutionValueFrom(forRow, _getFieldsInRowColumn(g, forRow, index), 1)

\* Kakurasu._getRowColumnSumValue
_getRowColumnSumValue(g, forRow, index) ==
    FieldsValueFrom(forRow, _getFieldsInRowColumn(g, forRow, index), 1)

\* Kakurasu._isRowColumnConstraintSatisfied
_isRowColumnConstraintSatisfied(g, forRow, index) ==
    _getConstraintValue(g, forRow, index) = Some(_getRowColumnSumValue(g, forRow, index))

\* Kakurasu._areAllRowColumnContraintsSatisfied: every check is made with
\* forRow = true, whatever the parameter
_areAllRowColumnContraintsSatisfied(g, forRow) ==
    \A i \in 0..(_getAmountRowColumns(g, forRow) - 1) :
        _isRowColumnConstraintSatisfied(g, TRUE, i)

\* Kakurasu.isGameWon
isGameWon(g) ==
    IF ~_areAllRowColumnContraintsSatisfied(g, TRUE) THEN FALSE
    ELSE IF ~_areAllRowColumnContraintsSatisfied(g, FALSE) THEN FALSE
    ELSE TRUE

\* Kakurasu.isRowConstraintSatisfied
isRowConstraintSatisfied(g, row) == _isRowColumnConstraintSatisfied(g, TRUE, row)

\* Kakurasu.isColumnConstraintSatisfied
isColumnConstraintSatisfied(g, column) == _isRowColumnConstraintSatisfied(g, FALSE, column)

-----------------------------------------------------------------------------
(* Boards and snapshots the model draws its inputs from *)

\* the keys of a rows x columns board
Keys(rows, columns) == (0..(rows - 1)) \X (0..(columns - 1))

\* the key order KakurasuLevelGenerator._initEmptyField inserts: row by row
RowMajor(rows, columns) ==
    [n \in 1..(rows * columns) |-> _getFieldKey((n - 1) \div columns, (n - 1) % columns)]

\* another insertion order a snapshot may have: column by column
ColumnMajor(rows, columns) ==
    [n \in 1..(rows * columns) |-> _getFieldKey((n - 1) % rows, (n - 1) \div rows)]

\* a snapshot without history: solution mask sol, Active cells act, Flagged
\* cells flg, read-only cells ro
Board(rows, columns, keys, sol, act, flg, ro) ==
    [fields |-> [k \in Keys(rows, columns) |->
                    [status |-> IF k \in act THEN STATUS_ACTIVE
                                ELSE IF k \in flg THEN STATUS_FLAGGED ELSE STATUS_CLEAR,
                     readOnly |-> k \in ro,
                     solution |-> k \in sol]],
     fieldKeys |-> keys,
     moveHistory |-> CLEANVALUE_MOVEHISTORY,
     currentMoveIndex |-> CLEANVALUE_CURRENTMOVEINDEX]

\* the boards gameplay is explored on: 2 x 2, generator key order, solution
\* mask {0-0, 1-1}; cell 0-1 is Clear, Active or Flagged and may be a given
\* (read-only) cell
GameSnapshots ==
    { Board(2, 2, RowMajor(2, 2), {<<0, 0>>, <<1, 1>>}, act, flg, ro) :
        act \in {{}, {<<0, 1>>}}, flg \in {{}, {<<0, 1>>}}, ro \in {{}, {<<0, 1>>}} }

\* the cells the explored moves address
MoveKeys == {<<0, 1>>, <<1, 1>>}

\* the subsets of S with a cardinality in counts
SubsetsOfSize(S, counts) == { T \in SUBSET S : Cardinality(T) \in counts }

\* the key orders loading is explored on
KeyOrders(rows, columns) == {RowMajor(rows, columns), ColumnMajor(rows, columns)}

-----------------------------------------------------------------------------
(* KakurasuLevelGenerator, index.js:729-867                                *)
(* The four amounts of a config may be halves (the default maximum is     *)
(* rows / 2): a config holds each amount as twice its value.              *)

\* x || d for x a number or undefined
OrDefault(x, d) == IF Falsy(x) THEN d ELSE x[1]

\* the five corrections generateLevel makes to a minimum and a maximum for
\* an axis of n lines (index.js:751-765 and 768-782); amounts and limit
\* doubled
CorrectAmounts(minimum, maximum, limit) ==
    LET min1 == IF minimum < 0 THEN 0 ELSE minimum
        min2 == IF min1 > limit THEN limit ELSE min1
        max1 == IF maximum > limit THEN limit ELSE maximum
        max2 == IF max1 < 0 THEN 0 ELSE max1
        max3 == IF max2 < min2 THEN min2 ELSE max2
    IN [minimum |-> min2, maximum |-> max3]

\* generateLevel, index.js:741-782: the config it works with
NormalisedConfig(config) ==
    LET rows == OrDefault(config.rows, 5)
        columns == OrDefault(config.columns, rows)
        inRow == CorrectAmounts(OrDefault(config.amountMinimumInRow, 2 * 1),
                                OrDefault(config.amountMaximumInRow, rows),
                                2 * rows)
        inColumn == CorrectAmounts(OrDefault(config.amountMinimumInColumn, 2 * 1),
                                   OrDefault(config.amountMaximumInColumn, columns),
                                   2 * columns)
    IN [rows |-> rows, columns |-> columns,
        amountMinimumInRow |-> inRow.minimum, amountMaximumInRow |-> inRow.maximum,
        amountMinimumInColumn |-> inColumn.minimum,
        amountMaximumInColumn |-> inColumn.maximum]

\* new KakurasuField(): {status: STATUS_CLEAR}
NewField == [status |-> STATUS_CLEAR, readOnly |-> FALSE, solution |-> FALSE]

\* KakurasuLevelGenerator._initEmptyField
_initEmptyField(rows, columns) == [k \in Keys(rows, columns) |-> NewField]

\* mutant of _getRandomInt: the draw starts at 0 whatever the minimum
GetRandomIntFromZero(min, max) == 0..(max \div 2)

\* KakurasuLevelGenerator._getRandomInt: the integers Math.random() can
\* make it return, for min and max given doubled
_getRandomInt(min, max) ==
    LET lo == (min + 1) \div 2
        hi == max \div 2
        span == hi - lo + 1
    IN IF span > 0 THEN lo..hi ELSE (lo + span)..lo

\* the values of j that _shuffle can draw for an array of length n: one
\* j in 0..i for every i from n - 1 down to 1
ShuffleDraws(n) == { js \in [1..(n - 1) -> 0..(n - 1)] : \A i \in 1..(n - 1) : js[i] <= i }

\* the loop of _shuffle from index i down to 1 (array indices from 0)
RECURSIVE ShuffleFrom(_, _, _)
ShuffleFrom(a, i, js) ==
    IF i <= 0 THEN a
    ELSE ShuffleFrom([a EXCEPT ![i + 1] = a[js[i] + 1], ![js[i] + 1] = a[i + 1]], i - 1, js)

\* KakurasuLevelGenerator._shuffle for the draws js
_shuffle(a, js) == ShuffleFrom(a, Len(a) - 1, js)

\* KakurasuLevelGenerator._selectRandomAmountIndexes for the drawn amount
\* and the draws of the shuffle; shuffledArray[i] beyond the array is
\* undefined
_selectRandomAmountIndexes(maxAmount, amountToSelect, js) ==
    LET indexArray == [n \in 1..maxAmount |-> n - 1]
        shuffledArray == _shuffle(indexArray, js)
    IN [n \in 1..amountToSelect |->
           IF n <= maxAmount THEN Some(shuffledArray[n]) ELSE Null]

\* mutant of MarkSolutionFrom: a pass marks its selection and takes the
\* marks of all other cells away
MarkSolutionOnly(flds, forRow, outerIndex, solutionIndexes, i) ==
    [k \in DOMAIN flds |->
        [flds[k] EXCEPT !.solution =
            \E n \in i..Len(solutionIndexes) :
                k = (IF forRow THEN _getFieldKey(outerIndex, solutionIndexes[n][1])
                     ELSE _getFieldKey(solutionIndexes[n][1], outerIndex))]]

\* the inner loop of _setSolutionFieldsForRowColumn: the fields with the
\* selected cells of line outerIndex marked as solution
RECURSIVE MarkSolutionFrom(_, _, _, _, _)
MarkSolutionFrom(flds, forRow, outerIndex, solutionIndexes, i) ==
    IF i > Len(solutionIndexes) THEN flds
    ELSE LET solutionIndex == solutionIndexes[i][1]
             row == IF forRow THEN outerIndex ELSE solutionIndex
             column == IF forRow THEN solutionIndex ELSE outerIndex
             fieldKey == _getFieldKey(row, column)
         IN MarkSolutionFrom([flds EXCEPT ![fieldKey].solution = TRUE],
                             forRow, outerIndex, solutionIndexes, i + 1)

\* fields[fieldKey] is undefined for a selected index, so that
\* field.setIsSolution ends with a TypeError
MarkSolutionThrows(flds, forRow, outerIndex, solutionIndexes) ==
    \E i \in 1..Len(solutionIndexes) :
        \/ solutionIndexes[i] = Null
        \/ /\ solutionIndexes[i] # Null
           /\ (IF forRow THEN _getFieldKey(outerIndex, solutionIndexes[i][1])
                ELSE _getFieldKey(solutionIndexes[i][1], outerIndex)) \notin DOMAIN flds

-----------------------------------------------------------------------------
(* Actions *)

NoValue == Null

\* the record of a call made on the game of the current state
Made(op, ret) ==
    [op |-> op, cursor |-> currentMoveIndex, len |-> Len(moveHistory), ret |-> ret]

\* the state variables take the game g
Becomes(g) ==
    /\ fields' = g.fields
    /\ fieldKeys' = g.fieldKeys
    /\ moveHistory' = g.moveHistory
    /\ currentMoveIndex' = g.currentMoveIndex
    /\ meta' = g.meta

\* a call that returns a boolean: res is the game afterwards and the value
Call(op, res) ==
    /\ pc = "game"
    /\ Len(res.g.moveHistory) <= MaxHistory
    /\ Becomes(res.g)
    /\ last' = Made(op, Some(res.ret))
    /\ UNCHANGED <<pc, gen, store>>

\* new Kakurasu(state)
Load(state) ==
    LET res == constructor(state) IN
    /\ Becomes(res.g)
    /\ pc' = IF res.threw THEN "threw" ELSE "game"
    /\ last' = Made("constructor", NoValue)
    /\ UNCHANGED <<gen, store>>

SetFieldActive(row, column) == Call("setFieldActive", setFieldActive(Game, row, column))

SetFieldFlagged(row, column) == Call("setFieldFlagged", setFieldFlagged(Game, row, column))

SetFieldClear(row, column) == Call("setFieldClear", setFieldClear(Game, row, column))

ChangeActiveStatus(row, column) == Call("changeActiveStatus", changeActiveStatus(Game, row, column))

ChangeFlagStatus(row, column) == Call("changeFlagStatus", changeFlagStatus(Game, row, column))

UndoMove == Call("undoMove", undoMove(Game))

RedoMove == Call("redoMove", redoMove(Game))

ResetGame ==
    /\ pc = "game"
    /\ Becomes(resetGame(Game))
    /\ last' = Made("resetGame", NoValue)
    /\ UNCHANGED <<pc, gen, store>>

\* new Kakurasu(game.asJSON()): the game is replaced by its reloaded copy
Reload ==
    /\ pc = "game"
    /\ Load(asJSON(Game))

\* new Kakurasu(snapshot) for the snapshot the state holds
Construct ==
    /\ pc = "snapshot"
    /\ Load(asJSON(Game))

IsGameWon ==
    /\ pc = "game"
    /\ last' = Made("isGameWon", Some(isGameWon(Game)))
    /\ UNCHANGED <<pc, fields, fieldKeys, moveHistory, currentMoveIndex, meta, gen, store>>

\* game.getField(row, column).setReadOnly(readOnly)
SetReadOnly(row, column, readOnly) ==
    /\ pc = "game"
    /\ fields' = [fields EXCEPT ![_getFieldKey(row, column)] =
                      setReadOnly(getField(Game, row, column), readOnly)]
    /\ last' = Made("setReadOnly", NoValue)
    /\ UNCHANGED <<pc, fieldKeys, moveHistory, currentMoveIndex, meta, gen, store>>

IsPossibleToRedoMove ==
    /\ pc = "game"
    /\ last' = Made("isPossibleToRedoMove", Some(isPossibleToRedoMove(Game)))
    /\ UNCHANGED <<pc, fields, fieldKeys, moveHistory, currentMoveIndex, meta, gen, store>>

IsPossibleToUndoMove ==
    /\ pc = "game"
    /\ last' = Made("isPossibleToUndoMove", Some(isPossibleToUndoMove(Game)))
    /\ UNCHANGED <<pc, fields, fieldKeys, moveHistory, currentMoveIndex, meta, gen, store>>

\* KakurasuLevelGenerator.generateLevel(config) up to its first pass: the
\* config is normalised and the grid of new fields is laid out row by row
GenerateLevelOf(config) ==
    LET used == NormalisedConfig(config) IN
    /\ gen' = [config |-> used, forRow |-> TRUE, outerIndex |-> 0,
               solutionIndexes |-> <<>>]
    /\ fields' = _initEmptyField(used.rows, used.columns)
    /\ fieldKeys' = RowMajor(used.rows, used.columns)
    /\ pc' = "generating"
    /\ last' = Made("generateLevel", NoValue)
    /\ UNCHANGED <<moveHistory, currentMoveIndex, meta, store>>

GenerateLevel ==
    /\ pc = "config"
    /\ GenerateLevelOf(gen.config)

\* generateLevel() without an argument: config = config || {}
NoConfig ==
    [rows |-> Null, columns |-> Null,
     amountMinimumInRow |-> Null, amountMaximumInRow |-> Null,
     amountMinimumInColumn |-> Null, amountMaximumInColumn |-> Null]

\* Kakurasu.constructor on a snapshot without fields: !state.fields holds and
\* the fields are those of generateLevel(); the constructor goes on with them
\* as with the fields of any snapshot (Construct)
ConstructWithoutFields ==
    /\ pc = "nofields"
    /\ GenerateLevelOf(NoConfig)

\* the draws of one line: the amount of _getRandomInt and the indexes j of
\* the swaps of _shuffle, every outcome of Math.random()
AllDraws(minimum, maximum, maxAmount) ==
    _getRandomInt(minimum, maximum) \X ShuffleDraws(maxAmount)

\* the draws of one line when Math.random() returns the same number at each
\* call of the line, either 0 (the lowest amount, every swap with index 0)
\* or a number next to 1 (the highest amount, every swap with itself)
ExtremeDraws(minimum, maximum, maxAmount) ==
    LET amounts == _getRandomInt(minimum, maximum)
        lowest == CHOOSE a \in amounts : \A b \in amounts : a <= b
        highest == CHOOSE a \in amounts : \A b \in amounts : a >= b
    IN {<<lowest, [i \in 1..(maxAmount - 1) |-> 0]>>,
        <<highest, [i \in 1..(maxAmount - 1) |-> i]>>}

\* one pass of the outer loop of _setSolutionFieldsForRowColumn: an amount
\* and a shuffle are drawn and the selected cells of the line are marked.
\* After the last line of the row pass the column pass begins; after the
\* last line of the column pass generateLevel returns the fields, which are
\* then the fields of a snapshot.
SetSolutionFieldsDrawing(extremes) ==
    /\ pc = "generating"
    /\ LET config == gen.config
           forRow == gen.forRow
           outerIndex == gen.outerIndex
           outerLength == IF forRow THEN config.rows ELSE config.columns
           maxAmount == IF forRow THEN config.columns ELSE config.rows
           minimum == IF forRow THEN config.amountMinimumInColumn
                      ELSE config.amountMinimumInRow
           maximum == IF forRow THEN config.amountMaximumInColumn
                      ELSE config.amountMaximumInRow
       IN \E draw \in (IF extremes THEN ExtremeDraws(minimum, maximum, maxAmount)
                       ELSE AllDraws(minimum, maximum, maxAmount)) :
                  LET amountToSelect == draw[1]
                      js == draw[2]
                      solutionIndexes ==
                          _selectRandomAmountIndexes(maxAmount, amountToSelect, js)
                  IN IF MarkSolutionThrows(fields, forRow, outerIndex, solutionIndexes)
                     THEN /\ pc' = "threw"
                          /\ UNCHANGED <<fields, gen>>
                     ELSE /\ fields' = MarkSolutionFrom(fields, forRow, outerIndex,
                                                        solutionIndexes, 1)
                          /\ IF outerIndex + 1 < outerLength
                             THEN /\ gen' = [gen EXCEPT !.outerIndex = outerIndex + 1,
                                                        !.solutionIndexes = solutionIndexes]
                                  /\ pc' = "generating"
                             ELSE IF forRow
                                  THEN /\ gen' = [gen EXCEPT !.forRow = FALSE,
                                                             !.outerIndex = 0,
                                                             !.solutionIndexes = solutionIndexes]
                                       /\ pc' = "generating"
                                  ELSE /\ gen' = [gen EXCEPT !.solutionIndexes = solutionIndexes]
                                       /\ pc' = "snapshot"
    /\ UNCHANGED <<fieldKeys, moveHistory, currentMoveIndex, meta, last, store>>

SetSolutionFields == SetSolutionFieldsDrawing(FALSE)

\* the passes of the default level, 5 x 5, with the draws of each line
\* limited to the two extremes
SetSolutionFieldsExtreme == SetSolutionFieldsDrawing(TRUE)

-----------------------------------------------------------------------------
(* Specifications *)

\* a game constructed from a snapshot
Constructed(state) ==
    LET res == constructor(state) IN
    /\ pc = (IF res.threw THEN "threw" ELSE "game")
    /\ fields = res.g.fields
    /\ fieldKeys = res.g.fieldKeys
    /\ moveHistory = res.g.moveHistory
    /\ currentMoveIndex = res.g.currentMoveIndex
    /\ meta = res.g.meta
    /\ last = [op |-> "constructor", cursor |-> state.currentMoveIndex,
               len |-> Len(state.moveHistory), ret |-> NoValue]
    /\ gen = Null
    /\ store = Null

\* gameplay: a fresh game, then moves, undos, redos and resets
Init == \E state \in GameSnapshots : Constructed(state)

Move ==
    \E key \in MoveKeys :
        \/ SetFieldActive(key[1], key[2])
        \/ SetFieldFlagged(key[1], key[2])
        \/ SetFieldClear(key[1], key[2])
        \/ ChangeActiveStatus(key[1], key[2])
        \/ ChangeFlagStatus(key[1], key[2])

Next == Move \/ UndoMove \/ RedoMove \/ ResetGame

Spec == Init /\ [][Next]_vars

\* gameplay with saving and reloading
NextSnap == Next \/ Reload

SpecSnap == Init /\ [][NextSnap]_vars

\* gameplay with the eligibility queries
NextQuery == Next \/ IsPossibleToRedoMove \/ IsPossibleToUndoMove

SpecQuery == Init /\ [][NextQuery]_vars

\* gameplay in which fields are made read-only or editable between the
\* calls; the moves are the Active toggles, which keeps the histories that
\* read-only switching tears apart from the board explorable
ToggleMove == \E key \in MoveKeys : ChangeActiveStatus(key[1], key[2])

SwitchReadOnly ==
    \E key \in MoveKeys, readOnly \in BOOLEAN : SetReadOnly(key[1], key[2], readOnly)

NextReadOnly == ToggleMove \/ UndoMove \/ RedoMove \/ ResetGame \/ SwitchReadOnly

SpecReadOnly == Init /\ [][NextReadOnly]_vars

\* loading: a snapshot, its construction, and the win query
InitBoard ==
    \E rows \in 1..MaxDim, columns \in 1..MaxDim :
        \E keys \in KeyOrders(rows, columns),
           sol \in SubsetsOfSize(Keys(rows, columns), SolutionCounts),
           act \in SubsetsOfSize(Keys(rows, columns), ActiveCounts),
           flg \in {{}, {<<0, 0>>}} :
            LET state == Board(rows, columns, keys, sol, act, flg, {}) IN
            /\ pc = "snapshot"
            /\ fields = state.fields
            /\ fieldKeys = state.fieldKeys
            /\ moveHistory = state.moveHistory
            /\ currentMoveIndex = state.currentMoveIndex
            /\ meta = EmptyMeta
            /\ last = Made("snapshot", NoValue)
            /\ gen = Null
            /\ store = Null

NextBoard == Construct \/ IsGameWon

SpecBoard == InitBoard /\ [][NextBoard]_vars

\* the amounts a config is given, doubled: none, -1, 0, 0.5 and 2
AmountInputs == {Null, Some(-2), Some(0), Some(1), Some(4)}

\* generation: a config with rows given (the default of 5 rows is not
\* explored here), generateLevel, and the construction of a game from the
\* level
InitGen ==
    \E rows \in 1..MaxGenDim, columns \in {0} \cup 1..MaxGenDim :
        \E minimumInRow \in AmountInputs, maximumInRow \in AmountInputs,
           minimumInColumn \in AmountInputs, maximumInColumn \in AmountInputs :
            /\ pc = "config"
            /\ gen = [config |->
                         [rows |-> Some(rows),
                          columns |-> IF columns = 0 THEN Null ELSE Some(columns),
                          amountMinimumInRow |-> minimumInRow,
                          amountMaximumInRow |-> maximumInRow,
                          amountMinimumInColumn |-> minimumInColumn,
                          amountMaximumInColumn |-> maximumInColumn]]
            /\ fields = _initEmptyField(0, 0)
            /\ fieldKeys = <<>>
            /\ moveHistory = CLEANVALUE_MOVEHISTORY
            /\ currentMoveIndex = CLEANVALUE_CURRENTMOVEINDEX
            /\ meta = EmptyMeta
            /\ last = Made("config", NoValue)
            /\ store = Null

NextGen == GenerateLevel \/ SetSolutionFields \/ Construct

SpecGen == InitGen /\ [][NextGen]_vars

\* construction from a snapshot whose fields are absent (undefined) or an
\* object without keys
InitDefault ==
    /\ pc \in {"nofields", "snapshot"}
    /\ gen = Null
    /\ store = Null
    /\ fields = _initEmptyField(0, 0)
    /\ fieldKeys = <<>>
    /\ moveHistory = CLEANVALUE_MOVEHISTORY
    /\ currentMoveIndex = CLEANVALUE_CURRENTMOVEINDEX
    /\ meta = EmptyMeta
    /\ last = Made("snapshot", NoValue)

NextDefault == ConstructWithoutFields \/ SetSolutionFieldsExtreme \/ Construct

SpecDefault == InitDefault /\ [][NextDefault]_vars

\* setFieldActive on the first solution field, in key order, that is not
\* Active: the moves of a player who solves the level field by field (the
\* history grows to the size of the solution mask)
ActivateSolution ==
    /\ pc = "game"
    /\ \E n \in DOMAIN fieldKeys :
           LET Open(i) == isSolution(fields[fieldKeys[i]]) /\ ~isActive(fields[fieldKeys[i]])
               key == fieldKeys[n]
               res == setFieldActive(Game, key[1], key[2])
           IN /\ Open(n)
              /\ \A i \in 1..(n - 1) : ~Open(i)
              /\ Becomes(res.g)
              /\ last' = Made("setFieldActive", Some(res.ret))
    /\ UNCHANGED <<pc, gen, store>>

\* game.getField(row, column).setReadOnly(true) on the first Active field,
\* in key order, that is not read-only, once the game is won
ProtectActive ==
    /\ pc = "game"
    /\ isGameWon(Game)
    /\ \E n \in DOMAIN fieldKeys :
           LET Open(i) == isActive(fields[fieldKeys[i]]) /\ ~isReadOnly(fields[fieldKeys[i]])
               key == fieldKeys[n]
           IN /\ Open(n)
              /\ \A i \in 1..(n - 1) : ~Open(i)
              /\ SetReadOnly(key[1], key[2], TRUE)

\* the default level from its generation on: construction without fields,
\* the solving moves, the win query, read-only marks and resets
InitFresh == InitDefault /\ pc = "nofields"

NextFresh ==
    \/ ConstructWithoutFields
    \/ SetSolutionFieldsExtreme
    \/ Construct
    \/ ActivateSolution
    \/ ProtectActive
    \/ ResetGame
    \/ IsGameWon

SpecFresh == InitFresh /\ [][NextFresh]_vars

-----------------------------------------------------------------------------
(* Two games and a snapshot as objects, index.js:11-12, 22-41, 56-63,      *)
(* 145-166, 300-316 and 622-638. Field states and history arrays are held  *)
(* by address: two holders of one address hold one object, and a write     *)
(* through one of them is read through the other.                          *)

\* the address of the module-level array CLEANVALUE_MOVEHISTORY
CleanArray == 0

\* the addresses of the arrays made while the program runs
ArrayAddresses == 1..4

GameIds == {1, 2}

\* the longest history explored for the games held as objects
MaxObjectHistory == 2

\* the game id of st as one value, every reference followed
View(st, id) ==
    LET game == st.games[id] IN
    [fields |-> [k \in DOMAIN game.fields |-> st.states[game.fields[k]]],
     fieldKeys |-> game.fieldKeys,
     moveHistory |-> st.arrays[game.moveHistory],
     currentMoveIndex |-> game.currentMoveIndex,
     meta |-> game.meta]

\* the snapshot of st as one value, every reference followed
SnapshotValue(st) ==
    LET snapshot == st.snapshot[1] IN
    [fields |-> [k \in DOMAIN snapshot.fields |-> st.states[snapshot.fields[k]]],
     fieldKeys |-> snapshot.fieldKeys,
     moveHistory |-> st.arrays[snapshot.moveHistory],
     currentMoveIndex |-> snapshot.currentMoveIndex]

\* the arrays and the field states a game or the snapshot holds
ReferencedArrays(st) ==
    {CleanArray} \cup { st.games[id].moveHistory : id \in DOMAIN st.games }
                 \cup (IF st.snapshot = Null THEN {} ELSE {st.snapshot[1].moveHistory})

ReferencedStates(st) ==
    UNION { { st.games[id].fields[k] : k \in DOMAIN st.games[id].fields } :
            id \in DOMAIN st.games }
    \cup (IF st.snapshot = Null THEN {}
          ELSE { st.snapshot[1].fields[k] : k \in DOMAIN st.snapshot[1].fields })

\* the objects no holder references are gone (garbage collection)
Collected(st) ==
    [st EXCEPT !.arrays = [a \in ReferencedArrays(st) |-> st.arrays[a]],
               !.states = [a \in ReferencedStates(st) |-> st.states[a]]]

\* the address of a new array: the lowest one that no holder references
NewArray(st) ==
    CHOOSE a \in ArrayAddresses \ ReferencedArrays(st) :
        \A b \in ArrayAddresses \ ReferencedArrays(st) : a <= b

\* KakurasuField.setStatus on the fields of game id: this.state.status is
\* written in the state object the field holds
WriteFields(st, id, flds) ==
    LET held == st.games[id].fields IN
    [st EXCEPT !.states =
        [a \in DOMAIN st.states |->
            IF \E k \in DOMAIN held : held[k] = a
            THEN flds[CHOOSE k \in DOMAIN held : held[k] = a]
            ELSE st.states[a]]]

\* mutant of _deleteFutureMoveHistoryOf: the array the game holds is cut in
\* place
DeleteFutureMoveHistoryInPlace(st, id) ==
    [st EXCEPT !.arrays[st.games[id].moveHistory] =
                   _deleteFutureMoveHistory(View(st, id)).moveHistory]

\* Kakurasu._deleteFutureMoveHistory on game id: this.state.moveHistory is
\* assigned a new array, the slice or []
_deleteFutureMoveHistoryOf(st, id) ==
    LET a == NewArray(st) IN
    [st EXCEPT !.arrays = (a :> _deleteFutureMoveHistory(View(st, id)).moveHistory) @@ st.arrays,
               !.games[id].moveHistory = a]

\* Kakurasu._addMoveToHistory on game id: the push is made on the array the
\* game holds after _deleteFutureMoveHistory
_addMoveToHistoryOf(st, id, move) ==
    LET cut == _deleteFutureMoveHistoryOf(st, id)
        pushed == [cut EXCEPT !.arrays[cut.games[id].moveHistory] = Append(@, move)]
    IN [pushed EXCEPT !.games[id].currentMoveIndex =
                          _calcNextCurrentMoveIndex(View(pushed, id), 1)]

\* Kakurasu._makeMove on game id
_makeMoveOf(st, id, move) ==
    LET applied == _applyMove(View(st, id), move) IN
    IF applied.ret
    THEN [st |-> _addMoveToHistoryOf(WriteFields(st, id, applied.g.fields), id, move),
          ret |-> TRUE]
    ELSE [st |-> st, ret |-> FALSE]

\* Kakurasu.changeActiveStatus on game id
changeActiveStatusOf(st, id, row, column) ==
    LET field == getField(View(st, id), row, column)
        status == IF isClear(field) THEN STATUS_ACTIVE ELSE STATUS_CLEAR
    IN _makeMoveOf(st, id, [row |-> row, column |-> column,
                            previousStatus |-> field.status, nextStatus |-> status])

\* Kakurasu.undoMove on game id: the fields and the cursor are written, the
\* array is not
undoMoveOf(st, id) ==
    LET r == undoMove(View(st, id)) IN
    [st |-> [WriteFields(st, id, r.g.fields) EXCEPT
                 !.games[id].currentMoveIndex = r.g.currentMoveIndex],
     ret |-> r.ret]

\* Kakurasu.redoMove on game id
redoMoveOf(st, id) ==
    LET r == redoMove(View(st, id)) IN
    [st |-> [WriteFields(st, id, r.g.fields) EXCEPT
                 !.games[id].currentMoveIndex = r.g.currentMoveIndex],
     ret |-> r.ret]

\* Kakurasu.resetGame on game id: the fields are reset and the history is
\* again the module-level array
resetGameOf(st, id) ==
    [WriteFields(st, id, resetGame(View(st, id)).fields) EXCEPT
         !.games[id].moveHistory = CleanArray,
         !.games[id].currentMoveIndex = CLEANVALUE_CURRENTMOVEINDEX]

\* snapshot = game.asJSON() for game id: moveHistory and currentMoveIndex go
\* through JSON.parse(JSON.stringify(..)), the fields are the state objects
\* field.asJSON() returns, those the fields of the game hold
asJSONOf(st, id) ==
    LET a == NewArray([st EXCEPT !.snapshot = Null]) IN
    [st EXCEPT !.arrays = (a :> View(st, id).moveHistory) @@ st.arrays,
               !.snapshot = Some([fields |-> st.games[id].fields,
                                  fieldKeys |-> st.games[id].fieldKeys,
                                  moveHistory |-> a,
                                  currentMoveIndex |-> st.games[id].currentMoveIndex])]

\* game id = new Kakurasu(snapshot): the game holds the array of the
\* snapshot, and each new KakurasuField holds the state object it is given
constructorOf(st, id) ==
    LET snapshot == st.snapshot[1]
        res == constructor(SnapshotValue(st))
    IN [st EXCEPT !.games = (id :> [fields |-> snapshot.fields,
                                    fieldKeys |-> snapshot.fieldKeys,
                                    moveHistory |-> snapshot.moveHistory,
                                    currentMoveIndex |-> res.g.currentMoveIndex,
                                    meta |-> res.g.meta]) @@ st.games]

\* game id = new Kakurasu({fields: ..}) for the fields of board, written as
\* an object of its own: no moveHistory is given and the game holds the
\* module-level array
NewGame(id, board) ==
    LET res == constructor(board) IN
    [fields |-> [k \in DOMAIN board.fields |-> <<id, k>>],
     fieldKeys |-> board.fieldKeys,
     moveHistory |-> CleanArray,
     currentMoveIndex |-> res.g.currentMoveIndex,
     meta |-> res.g.meta]

\* the boards of the two games and the cell their moves address
ObjectBoards ==
    { Board(2, 2, RowMajor(2, 2), {<<0, 0>>, <<1, 1>>}, act, {}, {}) :
        act \in {{}, {<<0, 1>>}} }

ObjectMoveKeys == {<<0, 1>>}

\* the program that holds the games ids, each constructed from a board of
\* its own, and no snapshot
Holding(ids) ==
    \E boards \in [ids -> ObjectBoards] :
        /\ pc = "objects"
        /\ store = [states |-> [a \in ids \X Keys(2, 2) |-> boards[a[1]].fields[a[2]]],
                    arrays |-> (CleanArray :> CLEANVALUE_MOVEHISTORY),
                    games |-> [id \in ids |-> NewGame(id, boards[id])],
                    snapshot |-> Null,
                    receiver |-> 0]
        /\ fields = _initEmptyField(0, 0)
        /\ fieldKeys = <<>>
        /\ moveHistory = CLEANVALUE_MOVEHISTORY
        /\ currentMoveIndex = CLEANVALUE_CURRENTMOVEINDEX
        /\ meta = EmptyMeta
        /\ gen = Null
        /\ last = [op |-> "constructor"]

\* a call op on game id or on the snapshot: st is the store afterwards
MadeOf(op, id, st, ret) ==
    /\ pc = "objects"
    /\ Len(View(st, id).moveHistory) <= MaxObjectHistory
    /\ store' = Collected([st EXCEPT !.receiver = id])
    /\ last' = [op |-> op]
    /\ UNCHANGED <<pc, fields, fieldKeys, moveHistory, currentMoveIndex, meta, gen>>

ChangeActiveStatusOf(id) ==
    \E key \in ObjectMoveKeys :
        LET res == changeActiveStatusOf(store, id, key[1], key[2])
        IN MadeOf("changeActiveStatus", id, res.st, Some(res.ret))

UndoMoveOf(id) ==
    LET res == undoMoveOf(store, id) IN MadeOf("undoMove", id, res.st, Some(res.ret))

RedoMoveOf(id) ==
    LET res == redoMoveOf(store, id) IN MadeOf("redoMove", id, res.st, Some(res.ret))

ResetGameOf(id) == MadeOf("resetGame", id, resetGameOf(store, id), NoValue)

\* snapshot = game1.asJSON(), made once
AsJSON ==
    /\ store # Null
    /\ store.snapshot = Null
    /\ MadeOf("asJSON", 1, asJSONOf(store, 1), NoValue)

\* game2 = new Kakurasu(snapshot), made once
ConstructFromSnapshot ==
    /\ store # Null
    /\ store.snapshot # Null
    /\ 2 \notin DOMAIN store.games
    /\ MadeOf("constructor", 2, constructorOf(store, 2), NoValue)

PlayOf(id) ==
    /\ store # Null
    /\ id \in DOMAIN store.games
    /\ \/ ChangeActiveStatusOf(id)
       \/ UndoMoveOf(id)
       \/ RedoMoveOf(id)
       \/ ResetGameOf(id)

Play == \E id \in GameIds : PlayOf(id)

\* two games constructed without a moveHistory, each played
InitShared == Holding(GameIds)

NextShared == Play

SpecShared == InitShared /\ [][NextShared]_vars

\* a game, a snapshot of it and a second game constructed from the
\* snapshot, each game played
InitObjects == Holding({1})

NextObjects == Play \/ AsJSON \/ ConstructFromSnapshot

SpecObjects == InitObjects /\ [][NextObjects]_vars

-----------------------------------------------------------------------------
(* Vocabulary of the properties *)

MoveOps == {"setFieldActive", "setFieldFlagged", "setFieldClear",
            "changeActiveStatus", "changeFlagStatus"}

\* the call op(row, column) on g, for the key <<row, column>>
MoveCall(g, op, key) ==
    CASE op = "setFieldActive" -> setFieldActive(g, key[1], key[2])
      [] op = "setFieldFlagged" -> setFieldFlagged(g, key[1], key[2])
      [] op = "setFieldClear" -> setFieldClear(g, key[1], key[2])
      [] op = "changeActiveStatus" -> changeActiveStatus(g, key[1], key[2])
      [] op = "changeFlagStatus" -> changeFlagStatus(g, key[1], key[2])

\* the cursor as a position, Empty counted as -1
Position(cursor) == IF cursor = Null THEN -1 ELSE cursor[1]

\* the cursor one below a numeric cursor
OneLower(cursor) == IF cursor[1] = 0 THEN Null ELSE Some(cursor[1] - 1)

\* the state is directly after a successful move
AfterSuccessfulMove == pc = "game" /\ last.op \in MoveOps /\ last.ret = Some(TRUE)

RECURSIVE SetSum(_)
SetSum(S) == IF S = {} THEN 0 ELSE LET x == CHOOSE y \in S : TRUE IN x + SetSum(S \ {x})

\* the rows and columns the board holds
BoardRows == { k[1] : k \in DOMAIN fields }

BoardColumns == { k[2] : k \in DOMAIN fields }

ActiveSumOfRow(r) ==
    SetSum({ k[2] + 1 : k \in { q \in DOMAIN fields : q[1] = r /\ fields[q].status = STATUS_ACTIVE } })

ActiveSumOfColumn(c) ==
    SetSum({ k[1] + 1 : k \in { q \in DOMAIN fields : q[2] = c /\ fields[q].status = STATUS_ACTIVE } })

SolutionSumOfRow(r) ==
    SetSum({ k[2] + 1 : k \in { q \in DOMAIN fields : q[1] = r /\ fields[q].solution } })

SolutionSumOfColumn(c) ==
    SetSum({ k[1] + 1 : k \in { q \in DOMAIN fields : q[2] = c /\ fields[q].solution } })

-----------------------------------------------------------------------------
(* Properties *)

\* C1: directly after a successful move m, undoMove() followed by redoMove()
\* both succeed and give back the very game that m left: every field, the
\* history and the cursor.
C1_UndoRedoRoundTrip ==
    AfterSuccessfulMove =>
        LET undone == undoMove(Game)
            redone == redoMove(undone.g)
        IN undone.ret /\ redone.ret /\ redone.g = Game

\* C1 witness: a successful move was made on top of an earlier one, and
\* undoing it changes the board
C1_Witness ==
    /\ AfterSuccessfulMove
    /\ Len(moveHistory) >= 2
    /\ undoMove(Game).g.fields # fields
    /\ redoMove(undoMove(Game).g).g.fields = fields

\* C2: directly after a successful setField*/change* call no redo is
\* possible, the history is one longer than the position of the cursor
\* before the call (Empty counted as -1) plus one, and its last entry is the
\* move just made, with the cursor on it. Stated of the call just made and
\* of every call that can be made next.
C2_BranchTruncation ==
    /\ AfterSuccessfulMove =>
           /\ ~isPossibleToRedoMove(Game)
           /\ Len(moveHistory) = Position(last.cursor) + 2
           /\ currentMoveIndex = Some(Len(moveHistory) - 1)
    /\ pc = "game" =>
           \A op \in MoveOps, k \in DOMAIN fields :
               LET moved == MoveCall(Game, op, k).g IN
               MoveCall(Game, op, k).ret =>
                   /\ ~isPossibleToRedoMove(moved)
                   /\ Len(moved.moveHistory) = Position(currentMoveIndex) + 2
                   /\ moved.currentMoveIndex = Some(Len(moved.moveHistory) - 1)
                   /\ moved.moveHistory[Len(moved.moveHistory)] =
                          [row |-> k[1], column |-> k[2],
                           previousStatus |-> fields[k].status,
                           nextStatus |-> moved.fields[k].status]

\* C2 witness: m1; m2; undo(); m3 - the move was made with a redoable move
\* behind the cursor 0 and the history length is 2
C2_Witness ==
    /\ AfterSuccessfulMove
    /\ last.cursor = Some(0)
    /\ last.len = 2
    /\ Len(moveHistory) = 2

\* C3 (as claimed): isGameWon() is true iff every row's Active-weighted sum
\* equals the row target and every column's Active-weighted sum equals the
\* column target. Stated on the boards whose extents the game reports
\* correctly, so that only the win check itself is in question.
C3_WonIffRowsAndColumns ==
    (/\ pc = "game"
     /\ last.op = "isGameWon"
     /\ getAmountRows(Game) = Cardinality(BoardRows)
     /\ getAmountColumns(Game) = Cardinality(BoardColumns))
    => (last.ret = Some(TRUE) <=>
            /\ \A r \in BoardRows : getConstraintValueForRow(Game, r) = Some(ActiveSumOfRow(r))
            /\ \A c \in BoardColumns : getConstraintValueForColumn(Game, c) = Some(ActiveSumOfColumn(c)))

\* C4 (as claimed): a game constructed from an R x C board reports R rows and
\* C columns.
C4_GridExtents ==
    pc = "game" =>
        /\ getAmountRows(Game) = Cardinality(BoardRows)
        /\ getAmountColumns(Game) = Cardinality(BoardColumns)

\* C5 (as claimed): after construction every row target is the weighted sum
\* of the row's solution cells and every column target is the weighted sum of
\* the column's solution cells.
C5_ConstraintTargets ==
    pc = "game" =>
        /\ \A r \in BoardRows : getConstraintValueForRow(Game, r) = Some(SolutionSumOfRow(r))
        /\ \A c \in BoardColumns : getConstraintValueForColumn(Game, c) = Some(SolutionSumOfColumn(c))

\* C6 (as claimed): new Kakurasu(g.asJSON()) has the cursor, the history and
\* the field statuses of g.
C6_SnapshotRoundTrip ==
    pc = "game" =>
        LET loaded == constructor(asJSON(Game)) IN
        /\ ~loaded.threw
        /\ loaded.g.currentMoveIndex = currentMoveIndex
        /\ loaded.g.moveHistory = moveHistory
        /\ loaded.g.fields = fields

\* C7: resetGame() sets every field that is not read-only to Clear, leaves
\* the status of every read-only field and every readOnly and solution flag
\* as they are, leaves an empty history and the Empty cursor with neither
\* undo nor redo possible, and a second resetGame() changes nothing.
C7_ResetGame ==
    pc = "game" =>
        LET reset == resetGame(Game) IN
        /\ DOMAIN reset.fields = DOMAIN fields
        /\ \A k \in DOMAIN fields :
            /\ ~fields[k].readOnly => reset.fields[k].status = STATUS_CLEAR
            /\ fields[k].readOnly => reset.fields[k].status = fields[k].status
            /\ reset.fields[k].readOnly = fields[k].readOnly
            /\ reset.fields[k].solution = fields[k].solution
        /\ reset.moveHistory = <<>>
        /\ reset.currentMoveIndex = Null
        /\ ~isPossibleToUndoMove(reset)
        /\ ~isPossibleToRedoMove(reset)
        /\ resetGame(reset) = reset

\* C7 witness: resetGame() was called with moves in the history, and the
\* board holds a read-only field that is not Clear
C7_Witness ==
    /\ pc = "game"
    /\ last.op = "resetGame"
    /\ last.len >= 2
    /\ last.cursor # Null
    /\ \E k \in DOMAIN fields : fields[k].readOnly /\ fields[k].status # STATUS_CLEAR
    /\ \A k \in DOMAIN fields : ~fields[k].readOnly => fields[k].status = STATUS_CLEAR

\* C8: a setField*/change* call returns false iff its field is read-only,
\* and then nothing changes: no field, no history entry (redoable ones
\* included), not the cursor.
C8_RejectedMove ==
    pc = "game" =>
        \A op \in MoveOps, k \in DOMAIN fields :
            LET res == MoveCall(Game, op, k) IN
            /\ res.ret = FALSE <=> fields[k].readOnly
            /\ res.ret = FALSE => res.g = Game

\* C8 witness: a move on the read-only field was rejected while a redoable
\* move was in the history
C8_Witness ==
    /\ pc = "game"
    /\ last.op \in MoveOps
    /\ last.ret = Some(FALSE)
    /\ isPossibleToRedoMove(Game)
    /\ Len(moveHistory) = last.len
    /\ currentMoveIndex = last.cursor

\* C9: with the Empty cursor undoMove() returns false, with no move at
\* cursor+1 (Empty counted as -1) redoMove() returns false, and neither
\* changes a field, the history or the cursor.
C9_NoOpUndoRedo ==
    pc = "game" =>
        /\ currentMoveIndex = Null => undoMove(Game) = [g |-> Game, ret |-> FALSE]
        /\ Position(currentMoveIndex) + 1 >= Len(moveHistory)
              => redoMove(Game) = [g |-> Game, ret |-> FALSE]

\* C9 witness: undoMove() returned false with every move of a non-empty
\* history undone
C9_Witness ==
    /\ pc = "game"
    /\ last.op = "undoMove"
    /\ last.ret = Some(FALSE)
    /\ last.cursor = Null
    /\ Len(moveHistory) >= 1

\* C10: after a successful move m, undoMove() succeeds, gives the field the
\* status it had before m and leaves every field as it was before m, puts
\* the cursor one lower than after m (Empty if it was 0) and keeps m in the
\* history, so that redo is possible.
C10_UndoInvertsMove ==
    pc = "game" =>
        \A op \in MoveOps, k \in DOMAIN fields :
            LET moved == MoveCall(Game, op, k)
                undone == undoMove(moved.g)
            IN moved.ret =>
                /\ undone.ret
                /\ undone.g.fields[k].status = fields[k].status
                /\ undone.g.fields = fields
                /\ undone.g.currentMoveIndex = OneLower(moved.g.currentMoveIndex)
                /\ undone.g.moveHistory = moved.g.moveHistory
                /\ isPossibleToRedoMove(undone.g)

\* C10 witness: undoMove() succeeded from the end of the history (where a
\* move leaves the cursor) and landed on the Empty cursor with redo possible
C10_Witness ==
    /\ pc = "game"
    /\ last.op = "undoMove"
    /\ last.ret = Some(TRUE)
    /\ last.cursor = Some(last.len - 1)
    /\ currentMoveIndex = Null
    /\ isPossibleToRedoMove(Game)

\* C11: in every state of gameplay (moves, undos, redos and resets from a
\* freshly constructed game) the cursor is Empty or an index of the history,
\* 0 <= i < length; and the cursor 0 is an index like any other: the move at
\* 0 can be undone, the next cursor is 1, and recording keeps the move at 0.
C11_CursorInvariant ==
    pc = "game" =>
        /\ \/ currentMoveIndex = Null
           \/ /\ currentMoveIndex # Null
              /\ currentMoveIndex[1] >= 0
              /\ currentMoveIndex[1] < Len(moveHistory)
        /\ currentMoveIndex = Some(0) =>
              /\ isPossibleToUndoMove(Game)
              /\ undoMove(Game).g.currentMoveIndex = Null
              /\ _calcNextCurrentMoveIndex(Game, 1) = Some(1)
              /\ _deleteFutureMoveHistory(Game).moveHistory = <<moveHistory[1]>>

\* C11 witness: an undo has put the cursor on index 0 of a longer history
C11_Witness ==
    /\ pc = "game"
    /\ last.op = "undoMove"
    /\ last.ret = Some(TRUE)
    /\ currentMoveIndex = Some(0)
    /\ Len(moveHistory) >= 2

\* C13 (as claimed): in a state where isGameWon() is true, setting one
\* Active field that is not read-only to Clear, and nothing else, makes
\* isGameWon() false.
C13_ClearingBreaksWin ==
    (pc = "game" /\ isGameWon(Game)) =>
        \A k \in DOMAIN fields :
            (isActive(fields[k]) /\ ~isReadOnly(fields[k])) =>
                LET cleared == setFieldClear(Game, k[1], k[2]) IN
                /\ cleared.ret
                /\ ~isGameWon(cleared.g)

\* the game was built from the 2 x 2 board with keys 0-0, 0-1, 1-0, 1-1 and
\* the solution mask {0-0, 1-1}
Scenario2x2 ==
    /\ pc = "game"
    /\ DOMAIN fields = Keys(2, 2)
    /\ { k \in DOMAIN fields : isSolution(fields[k]) } = {<<0, 0>>, <<1, 1>>}

\* the fields that are Active, all others being Clear
OnlyActive(S) ==
    \A k \in DOMAIN fields :
        fields[k].status = (IF k \in S THEN STATUS_ACTIVE ELSE STATUS_CLEAR)

\* C14: on the 2 x 2 board with solution mask {0-0, 1-1} the row targets are
\* [1, 2] and the column targets are [1, 2]; with only 0-0 Active row 0 is
\* satisfied, row 1 is not and the game is not won; with 0-0 and 1-1 Active
\* and the others Clear the game is won.
C14_Scenario2x2 ==
    Scenario2x2 =>
        /\ getConstraintValueForRow(Game, 0) = Some(1)
        /\ getConstraintValueForRow(Game, 1) = Some(2)
        /\ getConstraintValueForColumn(Game, 0) = Some(1)
        /\ getConstraintValueForColumn(Game, 1) = Some(2)
        /\ OnlyActive({<<0, 0>>}) =>
              /\ isRowConstraintSatisfied(Game, 0)
              /\ ~isRowConstraintSatisfied(Game, 1)
              /\ ~isGameWon(Game)
              /\ last.op = "isGameWon" => last.ret = Some(FALSE)
        /\ OnlyActive({<<0, 0>>, <<1, 1>>}) =>
              /\ isGameWon(Game)
              /\ last.op = "isGameWon" => last.ret = Some(TRUE)

\* C14 witness: isGameWon() was called on the scenario's board with 0-0 and
\* 1-1 Active and answered true
C14_Witness ==
    /\ Scenario2x2
    /\ OnlyActive({<<0, 0>>, <<1, 1>>})
    /\ last.op = "isGameWon"
    /\ last.ret = Some(TRUE)

\* the puzzle of a game: the targets, the extents, and every field's
\* solution and readOnly flag
Puzzle(g) ==
    [rowTargets |-> [r \in 0..(getAmountRows(g) - 1) |-> getConstraintValueForRow(g, r)],
     columnTargets |-> [c \in 0..(getAmountColumns(g) - 1) |-> getConstraintValueForColumn(g, c)],
     amountRows |-> getAmountRows(g),
     amountColumns |-> getAmountColumns(g),
     flags |-> [k \in DOMAIN g.fields |->
                   [solution |-> isSolution(g.fields[k]), readOnly |-> isReadOnly(g.fields[k])]]]

\* the puzzles of the freshly constructed games
FreshPuzzles == { Puzzle(constructor(state).g) : state \in GameSnapshots }

\* C15: gameplay never changes the puzzle. In every state of gameplay the
\* row and column targets, getAmountRows(), getAmountColumns() and every
\* field's solution and readOnly flag are those of a freshly constructed
\* game, and every setField*/change*/undoMove/redoMove/resetGame call leaves
\* them as they are.
C15_PuzzleUnchanged ==
    pc = "game" =>
        /\ Puzzle(Game) \in FreshPuzzles
        /\ LET puzzle == Puzzle(Game) IN
           /\ \A op \in MoveOps, k \in DOMAIN fields :
                  Puzzle(MoveCall(Game, op, k).g) = puzzle
           /\ Puzzle(undoMove(Game).g) = puzzle
           /\ Puzzle(redoMove(Game).g) = puzzle
           /\ Puzzle(resetGame(Game)) = puzzle

\* C15 witness: moves were made and one was undone and redone, a solution
\* field is Active, and the board holds a read-only field
C15_Witness ==
    /\ pc = "game"
    /\ last.op = "redoMove"
    /\ last.ret = Some(TRUE)
    /\ Len(moveHistory) >= 2
    /\ \E k \in DOMAIN fields : isSolution(fields[k]) /\ isActive(fields[k])
    /\ \E k \in DOMAIN fields : isReadOnly(fields[k])

\* C16: a successful move made while the cursor is Empty, with an empty
\* history or with every move undone, leaves a history of exactly that one
\* move with the cursor at index 0; the moves undone before are gone and no
\* redo is possible. Stated of the call just made and of every call that can
\* be made next.
C16_RecordFromEmptyCursor ==
    /\ (AfterSuccessfulMove /\ last.cursor = Null) =>
           /\ Len(moveHistory) = 1
           /\ currentMoveIndex = Some(0)
           /\ ~isPossibleToRedoMove(Game)
           /\ redoMove(Game) = [g |-> Game, ret |-> FALSE]
    /\ (pc = "game" /\ currentMoveIndex = Null) =>
           \A op \in MoveOps, k \in DOMAIN fields :
               LET moved == MoveCall(Game, op, k) IN
               moved.ret =>
                   /\ moved.g.moveHistory =
                          <<[row |-> k[1], column |-> k[2],
                             previousStatus |-> fields[k].status,
                             nextStatus |-> moved.g.fields[k].status]>>
                   /\ moved.g.currentMoveIndex = Some(0)
                   /\ ~isPossibleToRedoMove(moved.g)

\* C16 witness: a move was made with the Empty cursor while the history held
\* two undone moves, and one move is left
C16_Witness ==
    /\ AfterSuccessfulMove
    /\ last.cursor = Null
    /\ last.len >= 2
    /\ Len(moveHistory) = 1

EligibilityQueries == {"isPossibleToRedoMove", "isPossibleToUndoMove"}

\* C17: in every state of gameplay isPossibleToRedoMove() is true iff the
\* history has a move at index cursor+1 (Empty counted as -1), and
\* isPossibleToUndoMove() is true iff the cursor is not Empty, and then a
\* move exists at the cursor; a call of either predicate answers so and
\* changes no field, no history entry and not the cursor.
C17_EligibilityPredicates ==
    /\ [](pc = "game" =>
            /\ isPossibleToRedoMove(Game) <=>
                   (Position(currentMoveIndex) + 1) \in 0..(Len(moveHistory) - 1)
            /\ isPossibleToUndoMove(Game) <=> currentMoveIndex # Null
            /\ currentMoveIndex # Null =>
                   Position(currentMoveIndex) \in 0..(Len(moveHistory) - 1)
            /\ last.op = "isPossibleToRedoMove" =>
                   last.ret = Some(Position(currentMoveIndex) + 1 < Len(moveHistory))
            /\ last.op = "isPossibleToUndoMove" =>
                   last.ret = Some(currentMoveIndex # Null))
    /\ [][last'.op \in EligibilityQueries =>
              UNCHANGED <<fields, fieldKeys, moveHistory, currentMoveIndex, meta>>]_vars

\* C17 witness: isPossibleToUndoMove() answered true at cursor 0 with a
\* redoable move behind it
C17_Witness ==
    /\ pc = "game"
    /\ last.op = "isPossibleToUndoMove"
    /\ last.ret = Some(TRUE)
    /\ currentMoveIndex = Some(0)
    /\ isPossibleToRedoMove(Game)

\* the move redoMove() would redo and the move undoMove() would undo
MoveToBeRedone == moveHistory[Position(currentMoveIndex) + 2]

MoveToBeUndone == moveHistory[Position(currentMoveIndex) + 1]

\* C18: when redoMove() (resp. undoMove()) is eligible but the field of its
\* move is read-only, it returns false and leaves every field status and the
\* history as they are, yet the cursor has moved by +1 (resp. -1, to Empty
\* from 0). Stated of the call that can be made next and of the call just
\* made.
C18_ReadOnlyTarget ==
    pc = "game" =>
        /\ (/\ isPossibleToRedoMove(Game)
            /\ isReadOnly(getField(Game, MoveToBeRedone.row, MoveToBeRedone.column))) =>
               LET redone == redoMove(Game) IN
               /\ redone.ret = FALSE
               /\ redone.g.fields = fields
               /\ redone.g.moveHistory = moveHistory
               /\ redone.g.currentMoveIndex = Some(Position(currentMoveIndex) + 1)
        /\ (/\ isPossibleToUndoMove(Game)
            /\ isReadOnly(getField(Game, MoveToBeUndone.row, MoveToBeUndone.column))) =>
               LET undone == undoMove(Game) IN
               /\ undone.ret = FALSE
               /\ undone.g.fields = fields
               /\ undone.g.moveHistory = moveHistory
               /\ undone.g.currentMoveIndex = OneLower(currentMoveIndex)
        /\ (/\ last.op = "redoMove"
            /\ last.ret = Some(FALSE)
            /\ Position(last.cursor) + 1 < last.len) =>
               /\ currentMoveIndex = Some(Position(last.cursor) + 1)
               /\ isReadOnly(getField(Game, MoveToBeUndone.row, MoveToBeUndone.column))
        /\ (/\ last.op = "undoMove"
            /\ last.ret = Some(FALSE)
            /\ last.cursor # Null) =>
               /\ currentMoveIndex = OneLower(last.cursor)
               /\ isReadOnly(getField(Game, MoveToBeRedone.row, MoveToBeRedone.column))

\* C18 witness: redoMove() returned false although a move was there to
\* redo, and the cursor is one higher than before the call
C18_Witness ==
    /\ pc = "game"
    /\ last.op = "redoMove"
    /\ last.ret = Some(FALSE)
    /\ Position(last.cursor) + 1 < last.len
    /\ Position(currentMoveIndex) = Position(last.cursor) + 1
    /\ Len(moveHistory) = last.len

\* the move that sets field k of the current game to status
MoveOf(k, status) ==
    [row |-> k[1], column |-> k[2],
     previousStatus |-> fields[k].status, nextStatus |-> status]

\* res is the game in which exactly the move m was recorded and applied:
\* the history is the part up to the cursor followed by m, the cursor is on
\* m, the field of m has the status m asks for and no other field changed
RecordsExactly(res, m) ==
    /\ res.ret
    /\ res.g.moveHistory =
           Append(Slice0(moveHistory, Position(currentMoveIndex) + 1), m)
    /\ res.g.currentMoveIndex = Some(Len(res.g.moveHistory) - 1)
    /\ res.g.fields =
           [fields EXCEPT ![_getFieldKey(m.row, m.column)].status = m.nextStatus]

\* C19: on a field that is not read-only changeActiveStatus sets a Clear
\* field to Active and an Active or Flagged field to Clear, changeFlagStatus
\* sets a Clear field to Flagged and a Flagged or Active field to Clear, and
\* each call records exactly one move.
C19_ToggleSemantics ==
    pc = "game" =>
        \A k \in DOMAIN fields :
            ~isReadOnly(fields[k]) =>
                /\ RecordsExactly(changeActiveStatus(Game, k[1], k[2]),
                       MoveOf(k, IF fields[k].status = STATUS_CLEAR
                                 THEN STATUS_ACTIVE ELSE STATUS_CLEAR))
                /\ RecordsExactly(changeFlagStatus(Game, k[1], k[2]),
                       MoveOf(k, IF fields[k].status = STATUS_CLEAR
                                 THEN STATUS_FLAGGED ELSE STATUS_CLEAR))

\* C19 witness: changeActiveStatus was called on a Flagged field and set it
\* to Clear
C19_Witness ==
    /\ pc = "game"
    /\ last.op = "changeActiveStatus"
    /\ last.ret = Some(TRUE)
    /\ Len(moveHistory) = Position(last.cursor) + 2
    /\ moveHistory[Len(moveHistory)].previousStatus = STATUS_FLAGGED
    /\ moveHistory[Len(moveHistory)].nextStatus = STATUS_CLEAR

\* the status a setField* method asks for
Requested(op) ==
    CASE op = "setFieldActive" -> STATUS_ACTIVE
      [] op = "setFieldFlagged" -> STATUS_FLAGGED
      [] op = "setFieldClear" -> STATUS_CLEAR

\* C20: every successful setFieldActive/setFieldFlagged/setFieldClear call,
\* one that asks for the status the field already has included, appends
\* exactly one move {row, column, previousStatus = the field's status before
\* the call, nextStatus = the requested status}, sets the field to the
\* requested status, changes no other field and leaves the cursor at the
\* last index of the history.
C20_RecordedMove ==
    pc = "game" =>
        \A op \in {"setFieldActive", "setFieldFlagged", "setFieldClear"},
           k \in DOMAIN fields :
            LET res == MoveCall(Game, op, k) IN
            res.ret => RecordsExactly(res, MoveOf(k, Requested(op)))

\* C20 witness: setFieldActive succeeded on a field that was Active already
\* and recorded the move Active -> Active
C20_Witness ==
    /\ pc = "game"
    /\ last.op = "setFieldActive"
    /\ last.ret = Some(TRUE)
    /\ Len(moveHistory) = Position(last.cursor) + 2
    /\ moveHistory[Len(moveHistory)].previousStatus = STATUS_ACTIVE
    /\ moveHistory[Len(moveHistory)].nextStatus = STATUS_ACTIVE
    /\ currentMoveIndex = Some(Len(moveHistory) - 1)

\* the game after setFieldActive on every solution field among keys[i..]
RECURSIVE ActivateSolutionFrom(_, _)
ActivateSolutionFrom(g, i) ==
    IF i > Len(g.fieldKeys) THEN g
    ELSE LET key == g.fieldKeys[i] IN
         ActivateSolutionFrom(IF isSolution(g.fields[key])
                              THEN setFieldActive(g, key[1], key[2]).g
                              ELSE g,
                              i + 1)

\* C12 (as claimed): every level generateLevel produces can be loaded into a
\* game, and setting exactly its solution fields to Active, all others being
\* Clear, makes isGameWon() true.
C12_GeneratedLevelSolvable ==
    (gen # Null /\ pc \in {"game", "threw"}) =>
        /\ pc = "game"
        /\ LET solved == ActivateSolutionFrom(Game, 1) IN
           /\ \A k \in DOMAIN fields :
                  solved.fields[k].status =
                      (IF isSolution(fields[k]) THEN STATUS_ACTIVE ELSE STATUS_CLEAR)
           /\ isGameWon(solved)

\* C21: undoMove() and redoMove() never change the history, neither its
\* length nor the row, column, previousStatus or nextStatus of an entry;
\* the history changes only by a successful setField*/change* call or by
\* resetGame(). Stated of the calls that can be made next and of every step
\* taken.
C21_HistoryImmutable ==
    /\ [](pc = "game" =>
            /\ undoMove(Game).g.moveHistory = moveHistory
            /\ redoMove(Game).g.moveHistory = moveHistory)
    /\ [][/\ last'.op \in {"undoMove", "redoMove"} => moveHistory' = moveHistory
          /\ moveHistory' # moveHistory =>
                 \/ last'.op \in MoveOps /\ last'.ret = Some(TRUE)
                 \/ last'.op = "resetGame"]_vars

\* C21 witness: undoMove() succeeded on a move that changed the status of
\* its field, with an earlier move below it, and then redoMove() succeeded
C21_Witness ==
    /\ pc = "game"
    /\ last.op = "redoMove"
    /\ last.ret = Some(TRUE)
    /\ Len(moveHistory) >= 2
    /\ currentMoveIndex = Some(1)
    /\ moveHistory[2].previousStatus # moveHistory[2].nextStatus

\* generateLevel has returned the level the state holds
Generated == pc = "snapshot" /\ gen # Null

\* Math.ceil and Math.floor of an amount held doubled
CeilOf(doubled) == (doubled + 1) \div 2

FloorOf(doubled) == doubled \div 2

\* the solution cells of a row and of a column
SolutionCellsOfRow(r) == { k \in DOMAIN fields : k[1] = r /\ isSolution(fields[k]) }

SolutionCellsOfColumn(c) == { k \in DOMAIN fields : k[2] = c /\ isSolution(fields[k]) }

\* C22: in every level generateLevel produces, with the normalised config,
\* every row holds at least ceil(amountMinimumInColumn) solution cells and
\* every column at least ceil(amountMinimumInRow).
C22_GeneratorMinimum ==
    Generated =>
        /\ \A r \in 0..(gen.config.rows - 1) :
               Cardinality(SolutionCellsOfRow(r)) >= CeilOf(gen.config.amountMinimumInColumn)
        /\ \A c \in 0..(gen.config.columns - 1) :
               Cardinality(SolutionCellsOfColumn(c)) >= CeilOf(gen.config.amountMinimumInRow)

\* C22 witness: a 2 x 2 level with the minima 0.5 and 1 in which a row and
\* a column hold exactly one solution cell
C22_Witness ==
    /\ Generated
    /\ gen.config.rows = 2
    /\ gen.config.columns = 2
    /\ gen.config.amountMinimumInColumn = 1
    /\ gen.config.amountMinimumInRow = 2
    /\ \E r \in 0..1 : Cardinality(SolutionCellsOfRow(r)) = 1
    /\ \E c \in 0..1 : Cardinality(SolutionCellsOfColumn(c)) = 1

\* the solution mask of the state
SolutionMask == { k \in DOMAIN fields : isSolution(fields[k]) }

\* the cells a pass of the outer loop selected in line outerIndex
SelectedCells(forRow, outerIndex, solutionIndexes) ==
    { IF forRow THEN _getFieldKey(outerIndex, solutionIndexes[n][1])
      ELSE _getFieldKey(solutionIndexes[n][1], outerIndex) : n \in DOMAIN solutionIndexes }

\* C23: the generated solution mask is exactly the union of the cells
\* selected by the row pass and by the column pass: the grid starts with
\* every field Clear, not read-only and not solution, every pass of either
\* loop adds exactly the cells it selected to the mask and changes nothing
\* else, and the level returned has every field Clear and not read-only.
\* (That a row can hold more solution cells than amountMaximumInColumn and a
\* column more than amountMaximumInRow is shown by the state C23_Witness.)
C23_UnionOfPasses ==
    /\ [](pc = "generating" /\ gen.forRow /\ gen.outerIndex = 0 =>
            /\ DOMAIN fields = Keys(gen.config.rows, gen.config.columns)
            /\ \A k \in DOMAIN fields :
                   isClear(fields[k]) /\ ~isReadOnly(fields[k]) /\ ~isSolution(fields[k]))
    /\ [](Generated =>
            \A k \in DOMAIN fields : isClear(fields[k]) /\ ~isReadOnly(fields[k]))
    /\ [][pc = "generating" =>
            /\ pc' \in {"generating", "snapshot"}
            /\ DOMAIN fields' = DOMAIN fields
            /\ { k \in DOMAIN fields' : isSolution(fields'[k]) } =
                   SolutionMask \cup
                       SelectedCells(gen.forRow, gen.outerIndex, gen'.solutionIndexes)
            /\ \A k \in DOMAIN fields :
                   /\ fields'[k].status = fields[k].status
                   /\ fields'[k].readOnly = fields[k].readOnly]_vars

\* C23 witness: a generated level in which a row holds more solution cells
\* than amountMaximumInColumn and a column more than amountMaximumInRow
C23_Witness ==
    /\ Generated
    /\ \E r \in 0..(gen.config.rows - 1) :
           2 * Cardinality(SolutionCellsOfRow(r)) > gen.config.amountMaximumInColumn
    /\ \E c \in 0..(gen.config.columns - 1) :
           2 * Cardinality(SolutionCellsOfColumn(c)) > gen.config.amountMaximumInRow

\* the bounds of a normalised config are ordered and within the grid
BoundsInGrid(config) ==
    /\ 0 <= config.amountMinimumInRow
    /\ config.amountMinimumInRow <= config.amountMaximumInRow
    /\ config.amountMaximumInRow <= 2 * config.rows
    /\ 0 <= config.amountMinimumInColumn
    /\ config.amountMinimumInColumn <= config.amountMaximumInColumn
    /\ config.amountMaximumInColumn <= 2 * config.columns

\* a minimum and a maximum are both configured, the minimum lies within an
\* axis of n lines and exceeds the maximum (amounts doubled)
MinimumOverMaximum(minimum, maximum, n) ==
    /\ minimum # Null
    /\ maximum # Null
    /\ 0 <= minimum[1]
    /\ minimum[1] <= 2 * n
    /\ minimum[1] > maximum[1]

\* C24 (as claimed): for every config the bounds generateLevel uses satisfy
\* 0 <= amountMinimumInRow <= amountMaximumInRow <= rows and
\* 0 <= amountMinimumInColumn <= amountMaximumInColumn <= columns; and when
\* a configured minimum within the grid exceeds the configured maximum, the
\* maximum used is the minimum used, which is not below the configured one.
C24_Normalisation ==
    /\ (gen # Null /\ pc \in {"generating", "snapshot"}) => BoundsInGrid(gen.config)
    /\ pc = "config" =>
           LET config == gen.config
               used == NormalisedConfig(config)
           IN /\ BoundsInGrid(used)
              /\ MinimumOverMaximum(config.amountMinimumInRow,
                                    config.amountMaximumInRow, used.rows) =>
                     /\ used.amountMaximumInRow = used.amountMinimumInRow
                     /\ used.amountMinimumInRow >= config.amountMinimumInRow[1]
              /\ MinimumOverMaximum(config.amountMinimumInColumn,
                                    config.amountMaximumInColumn, used.columns) =>
                     /\ used.amountMaximumInColumn = used.amountMinimumInColumn
                     /\ used.amountMinimumInColumn >= config.amountMinimumInColumn[1]


\* C25: a game constructed from a snapshot whose fields are absent or an
\* object without keys holds the 5 x 5 board of the default level: 25
\* fields, all Clear and none read-only
C25_DefaultLevel ==
    pc = "game" =>
        /\ DOMAIN fields = Keys(5, 5)
        /\ Cardinality(DOMAIN fields) = 25
        /\ getAmountRows(Game) = 5
        /\ getAmountColumns(Game) = 5
        /\ \A k \in DOMAIN fields : /\ isClear(fields[k])
                                    /\ ~isReadOnly(fields[k])

\* the part of C25 for absent fields
C25_AbsentFields ==
    (pc = "game" /\ gen # Null) =>
        /\ DOMAIN fields = Keys(5, 5)
        /\ \A k \in DOMAIN fields : /\ isClear(fields[k])
                                    /\ ~isReadOnly(fields[k])


\* the single-line checks agree with the Active sums of the board's lines
LineChecksAgree ==
    /\ \A r \in BoardRows :
           isRowConstraintSatisfied(Game, r)
               <=> (Some(ActiveSumOfRow(r)) = getConstraintValueForRow(Game, r))
    /\ \A c \in BoardColumns :
           isColumnConstraintSatisfied(Game, c)
               <=> (Some(ActiveSumOfColumn(c)) = getConstraintValueForColumn(Game, c))

\* C26: isRowConstraintSatisfied(r) is true iff the sum of c + 1 over the
\* Active fields of row r equals getConstraintValueForRow(r), and
\* isColumnConstraintSatisfied(c) is true iff the sum of r + 1 over the
\* Active fields of column c equals getConstraintValueForColumn(c); Clear and
\* Flagged fields add nothing
C26_SingleLineChecks == pc = "game" => LineChecksAgree

\* the part of C26 on the boards whose extents are loaded as they are
C26_SquareBoards ==
    (pc = "game" /\ BoardRows = BoardColumns) => LineChecksAgree


\* the entries among the first n of the history that target field k
EntriesOn(k, n) ==
    { i \in 1..n : moveHistory[i].row = k[1] /\ moveHistory[i].column = k[2] }

Highest(S) == CHOOSE i \in S : \A j \in S : j <= i

Lowest(S) == CHOOSE i \in S : \A j \in S : i <= j

\* the status field k had when the history began, read from the state: the
\* previousStatus of the first entry on k, or the status of k when no entry
\* targets it
StartStatus(k) ==
    LET on == EntriesOn(k, Len(moveHistory))
    IN IF on = {} THEN fields[k].status ELSE moveHistory[Lowest(on)].previousStatus

\* each field has the nextStatus of the last entry on it up to the cursor,
\* or its start status
BoardFollowsHistory ==
    \A k \in DOMAIN fields :
        LET on == EntriesOn(k, Position(currentMoveIndex) + 1)
        IN fields[k].status = (IF on = {} THEN StartStatus(k)
                               ELSE moveHistory[Highest(on)].nextStatus)

\* each entry starts from the nextStatus of the entry before it on the same
\* field, or from the start status
EntriesChained ==
    \A i \in 1..Len(moveHistory) :
        LET m == moveHistory[i]
            before == EntriesOn(<<m.row, m.column>>, i - 1)
        IN m.previousStatus = (IF before = {} THEN StartStatus(<<m.row, m.column>>)
                               ELSE moveHistory[Highest(before)].nextStatus)

\* C27: in a game played from construction or a reset by moves, undos and
\* redos, each field has the nextStatus of the last move on it among
\* history[0..cursor], or its status at construction or reset when there is
\* none, and each entry's previousStatus is the nextStatus of the entry before
\* it on the same field, or that start status. The start status is read from
\* the state (StartStatus); it is the status at construction or reset because
\* the history is empty then and no call but resetGame() changes it.
C27_BoardHistoryConsistent ==
    /\ [](pc = "game" =>
            /\ last.op \in {"constructor", "resetGame"} => moveHistory = <<>>
            /\ Position(currentMoveIndex) < Len(moveHistory)
            /\ BoardFollowsHistory
            /\ EntriesChained)
    /\ [][last'.op # "resetGame" =>
             \A k \in DOMAIN fields :
                 LET was == StartStatus(k) IN was = StartStatus(k)']_vars

\* C27 witness: two moves on one field that did not start Clear and a third
\* move are recorded, and the last two of them are undone
C27_Witness ==
    /\ pc = "game"
    /\ last.op = "undoMove"
    /\ last.ret = Some(TRUE)
    /\ Len(moveHistory) = 3
    /\ currentMoveIndex = Some(0)
    /\ moveHistory[1].row = moveHistory[2].row
    /\ moveHistory[1].column = moveHistory[2].column
    /\ moveHistory[1].previousStatus # STATUS_CLEAR
    /\ moveHistory[2].nextStatus # moveHistory[1].nextStatus


\* undoMove() called on g until it returns false, at most fuel times: the
\* game afterwards, the number of calls that returned true and whether the
\* call that returned false was reached
RECURSIVE UndoWhileTrue(_, _)
UndoWhileTrue(g, fuel) ==
    IF fuel = 0 THEN [g |-> g, count |-> 0, ended |-> FALSE]
    ELSE LET r == undoMove(g) IN
         IF r.ret
         THEN LET rest == UndoWhileTrue(r.g, fuel - 1)
              IN [rest EXCEPT !.count = @ + 1]
         ELSE [g |-> r.g, count |-> 0, ended |-> TRUE]

\* the same for redoMove()
RECURSIVE RedoWhileTrue(_, _)
RedoWhileTrue(g, fuel) ==
    IF fuel = 0 THEN [g |-> g, count |-> 0, ended |-> FALSE]
    ELSE LET r == redoMove(g) IN
         IF r.ret
         THEN LET rest == RedoWhileTrue(r.g, fuel - 1)
              IN [rest EXCEPT !.count = @ + 1]
         ELSE [g |-> r.g, count |-> 0, ended |-> TRUE]

\* the status of field k with every entry of the history applied
StatusAtTop(k) ==
    LET on == EntriesOn(k, Len(moveHistory))
    IN IF on = {} THEN StartStatus(k) ELSE moveHistory[Highest(on)].nextStatus

\* C28: from a game with cursor i (Empty = -1), undoMove() called again and
\* again returns true exactly i + 1 times and then false, the cursor is then
\* Empty and every field has its start status (StartStatus, see C27);
\* redoMove() called again and again afterwards returns true exactly
\* history-length times and then false, and the board is then the one with
\* the last history entry applied, which is the present board when the
\* cursor is on the last entry.
C28_UndoAllRedoAll ==
    pc = "game" =>
        LET undone == UndoWhileTrue(Game, Len(moveHistory) + 2)
            redone == RedoWhileTrue(undone.g, Len(moveHistory) + 2)
        IN /\ undone.ended
           /\ undone.count = Position(currentMoveIndex) + 1
           /\ undone.g.currentMoveIndex = Null
           /\ undone.g.moveHistory = moveHistory
           /\ \A k \in DOMAIN fields : undone.g.fields[k].status = StartStatus(k)
           /\ redone.ended
           /\ redone.count = Len(moveHistory)
           /\ Position(redone.g.currentMoveIndex) = Len(moveHistory) - 1
           /\ \A k \in DOMAIN fields : redone.g.fields[k].status = StatusAtTop(k)
           /\ Position(currentMoveIndex) = Len(moveHistory) - 1 =>
                  redone.g.fields = fields

\* C28 witness: three moves are recorded, the cursor is on the last of them
\* and undoing all of them changes the board
C28_Witness ==
    /\ pc = "game"
    /\ Len(moveHistory) = 3
    /\ currentMoveIndex = Some(2)
    /\ UndoWhileTrue(Game, 5).count = 3
    /\ UndoWhileTrue(Game, 5).g.fields # fields
    /\ RedoWhileTrue(UndoWhileTrue(Game, 5).g, 5).count = 3


\* the history and the cursor of a game or a snapshot value
HistoryOf(value) ==
    [moveHistory |-> value.moveHistory, currentMoveIndex |-> value.currentMoveIndex]

\* C29: once asJSON() has returned a snapshot, no move, undo, redo or reset
\* of a game changes the field statuses, the moveHistory or the
\* currentMoveIndex of the snapshot, and a call on one of the two games (the
\* second is constructed from the snapshot) changes nothing of the other
C29_SnapshotIsolation ==
    [][(pc = "objects" /\ store.snapshot # Null) =>
          /\ SnapshotValue(store') = SnapshotValue(store)
          /\ \A id \in DOMAIN store.games :
                 id # store'.receiver => View(store', id) = View(store, id)]_vars

\* the part of C29 for moveHistory and currentMoveIndex, which asJSON()
\* copies
C29_HistoryIsolation ==
    [][(pc = "objects" /\ store.snapshot # Null) =>
          /\ HistoryOf(SnapshotValue(store')) = HistoryOf(SnapshotValue(store))
          /\ \A id \in DOMAIN store.games :
                 id # store'.receiver =>
                     HistoryOf(View(store', id)) = HistoryOf(View(store, id))]_vars


\* C30: two games constructed without a moveHistory, and a game that was
\* reset, hold the module-level array CLEANVALUE_MOVEHISTORY; no move, undo,
\* redo or reset of one game changes the history or the cursor of the other,
\* and the module-level array stays empty
C30_SharedCleanHistory ==
    /\ [](pc = "objects" =>
            /\ store.arrays[CleanArray] = <<>>
            /\ last.op = "constructor" =>
                   \A id \in DOMAIN store.games :
                       store.games[id].moveHistory = CleanArray
            /\ last.op = "resetGame" =>
                   store.games[store.receiver].moveHistory = CleanArray)
    /\ [][pc = "objects" =>
             \A id \in DOMAIN store.games :
                 id # store'.receiver =>
                     HistoryOf(View(store', id)) = HistoryOf(View(store, id))]_vars

\* C30 witness: game 1 has recorded a move while game 2 holds the
\* module-level array, which game 1 held before its move
C30_Witness ==
    /\ pc = "objects"
    /\ DOMAIN store.games = GameIds
    /\ store.snapshot = Null
    /\ last.op = "changeActiveStatus"
    /\ store.receiver = 1
    /\ store.games[1].moveHistory # CleanArray
    /\ Len(View(store, 1).moveHistory) = 1
    /\ store.games[1].currentMoveIndex = Some(0)
    /\ store.games[2].moveHistory = CleanArray


\* no field of the board is read-only
NoReadOnlyField == \A k \in DOMAIN fields : ~isReadOnly(fields[k])

\* every live row sum of the game g is 0
LiveRowSumsZero(g) == \A r \in 0..4 : _getRowColumnSumValue(g, TRUE, r) = 0

ConfiguredInRange(minimum, maximum, n) ==
    /\ minimum # Null
    /\ maximum # Null
    /\ 0 <= minimum[1]
    /\ minimum[1] <= maximum[1]
    /\ maximum[1] <= 2 * n

\* the config object as generateLevel leaves it: every property assigned
AsConfigured(used) ==
    [rows |-> Some(used.rows), columns |-> Some(used.columns),
     amountMinimumInRow |-> Some(used.amountMinimumInRow),
     amountMaximumInRow |-> Some(used.amountMaximumInRow),
     amountMinimumInColumn |-> Some(used.amountMinimumInColumn),
     amountMaximumInColumn |-> Some(used.amountMaximumInColumn)]

\* the bounds of the row axis and of the column axis that are used are the
\* configured ones, where these are in range
InRangeUnchanged(config, used) ==
    /\ ConfiguredInRange(config.amountMinimumInRow, config.amountMaximumInRow, used.rows) =>
           /\ used.amountMinimumInRow = config.amountMinimumInRow[1]
           /\ used.amountMaximumInRow = config.amountMaximumInRow[1]
    /\ ConfiguredInRange(config.amountMinimumInColumn, config.amountMaximumInColumn,
                         used.columns) =>
           /\ used.amountMinimumInColumn = config.amountMinimumInColumn[1]
           /\ used.amountMaximumInColumn = config.amountMaximumInColumn[1]

\* C32 (as claimed): configured amounts that lie in [0, rows] / [0, columns]
\* with min <= max, the value 0 included, are the bounds generateLevel uses,
\* and a second call of generateLevel with the config object a first call
\* has normalised uses the same bounds.
C32_InRangeUnchanged ==
    /\ pc = "config" =>
           LET used == NormalisedConfig(gen.config)
           IN /\ InRangeUnchanged(gen.config, used)
              /\ NormalisedConfig(AsConfigured(used)) = used
    /\ (gen # Null /\ pc \in {"generating", "snapshot"}) =>
           NormalisedConfig(AsConfigured(gen.config)) = gen.config

\* the part of C32 that holds: in-range amounts other than 0 are used
\* unchanged, and a second call uses the same bounds when no bound the first
\* call used is 0
C32_NonZeroUnchanged ==
    pc = "config" =>
        LET config == gen.config
            used == NormalisedConfig(config)
            NonZero(x) == x # Null => x[1] # 0
        IN /\ (/\ NonZero(config.amountMinimumInRow)
               /\ NonZero(config.amountMaximumInRow)
               /\ NonZero(config.amountMinimumInColumn)
               /\ NonZero(config.amountMaximumInColumn)) => InRangeUnchanged(config, used)
           /\ (/\ used.amountMinimumInRow # 0
               /\ used.amountMaximumInRow # 0
               /\ used.amountMinimumInColumn # 0
               /\ used.amountMaximumInColumn # 0) =>
                  NormalisedConfig(AsConfigured(used)) = used


\* n, the minimum and the maximum of the call of _selectRandomAmountIndexes
\* that the pass of the current line makes
CallOfPass ==
    [n |-> IF gen.forRow THEN gen.config.columns ELSE gen.config.rows,
     minimum |-> IF gen.forRow THEN gen.config.amountMinimumInColumn
                 ELSE gen.config.amountMinimumInRow,
     maximum |-> IF gen.forRow THEN gen.config.amountMaximumInColumn
                 ELSE gen.config.amountMaximumInRow]

\* _shuffle returns a permutation of the index array of the current call,
\* whatever it draws
ShufflePermutes ==
    pc = "generating" =>
        LET n == CallOfPass.n
            indexArray == [m \in 1..n |-> m - 1]
        IN \A js \in ShuffleDraws(n) :
               LET a == _shuffle(indexArray, js)
               IN /\ Len(a) = n
                  /\ { a[m] : m \in 1..n } = 0..(n - 1)

\* a pass of a line: the selection holds k pairwise distinct indices within
\* [0, n), k is at least ceil(min) and at most most, with most <= n, and
\* every mark addresses a field of the grid and is set
SelectionStep(most) ==
    pc = "generating" =>
        LET call == CallOfPass
            selected == gen'.solutionIndexes
            k == Len(selected)
        IN /\ pc' # "threw"
           /\ \A m \in 1..k : /\ selected[m] # Null
                              /\ selected[m][1] \in 0..(call.n - 1)
           /\ \A m, o \in 1..k : m # o => selected[m] # selected[o]
           /\ CeilOf(call.minimum) <= k
           /\ k <= most
           /\ most <= call.n
           /\ SelectedCells(gen.forRow, gen.outerIndex, selected) \subseteq DOMAIN fields
           /\ \A key \in SelectedCells(gen.forRow, gen.outerIndex, selected) :
                  isSolution(fields'[key])

\* C33 (as claimed): for every call the generator makes,
\* _selectRandomAmountIndexes(n, min, max) returns k pairwise distinct
\* indices, each in [0, n), with ceil(min) <= k <= floor(max) <= n, every
\* solution mark addresses an existing field of the grid, and _shuffle
\* returns a permutation of its input.
C33_IndexSelection ==
    /\ []ShufflePermutes
    /\ [][pc = "generating" => SelectionStep(FloorOf(CallOfPass.maximum))]_vars

\* the part of C33 that holds: the same with k at most ceil(max), which is
\* at most n
C33_SelectionInGrid ==
    /\ []ShufflePermutes
    /\ [][pc = "generating" => SelectionStep(CeilOf(CallOfPass.maximum))]_vars

=============================================================================
